---- MODULE Spec2Model ----
(***************************************************************************)
(* Model of the BFT replicated-state-machine simulator: the validator node *)
(* (src/src/network/node.py), the transport (src/src/network/simulator.py) *)
(* and the signed artifacts they exchange (transactions, blocks, votes).   *)
(*                                                                         *)
(* Modelling conventions                                                   *)
(*  - Ed25519 and SHA-256 are ideal: a signature is the record of what was *)
(*    signed and by which key, a digest is a tagged tuple of what was      *)
(*    hashed.  Two digests are equal iff their inputs are equal.           *)
(*  - A key "sender/name" is the pair <<sender, name>>; senders contain no *)
(*    "/" so key.startswith(sender + "/") is a test on the first part.     *)
(*  - Every handler is a pure operator from the node record before the     *)
(*    call to the node record after it; the field "out" collects, in       *)
(*    order, the messages the node handed to network.broadcast / send.     *)
(*  - time.time() is the host clock: whether _try_sync is due is an input *)
(*    of the step.  A msg_id is sender_id plus the instant the message was *)
(*    built; the model names that instant by what the node built at it     *)
(*    (its k-th header or reply, or its vote for a phase, height and       *)
(*    hash), which is unique per message as the instants are.              *)
(*  - State.__init__ (state.py:6) takes no chain id although Node passes   *)
(*    one (node.py:21); the store is modelled as state.py defines it: an   *)
(*    empty map whose apply_transaction verifies under the default chain.  *)
(***************************************************************************)
EXTENDS Integers, Sequences, FiniteSets, TLC

VARIABLES nodes,          \* NetworkSimulator.nodes: node_id -> Node
          message_queue,  \* NetworkSimulator.message_queue: scheduled hops
          config,         \* NetworkSimulator.config and the run's set-up
          used,           \* how much of each bound the run has used
          last,           \* the operation performed by the last step
          collector,      \* a VoteCollector and the add_vote calls made on it
          sim,            \* the NetworkSimulator of a run followed in virtual time
          signer,         \* a Signer's signature and the verification it was presented to
          finality        \* a FinalityManager and the last call made on it

vars == <<nodes, message_queue, config, used, last, collector, sim, signer, finality>>

(***************************************************************************)
(* Bounds                                                                  *)
(***************************************************************************)
MaxHeight == 2      \* no block is proposed above this height
MaxProposals == 2   \* propose_block calls of the orchestrator, per run
MaxInject == 2      \* messages an outsider hands to receive_message, per run
MaxForge == 5       \* the same, for an outsider who forges validators' votes
MaxCalls == 3       \* add_vote calls made on a VoteCollector, per run
MaxSends == 3       \* send and broadcast calls made on the transport, per run
MaxTime == 150      \* no step moves the clock beyond this time
MaxVotesIn == 3     \* votes peers hand to the nodes of a run with an observer
MaxHeadersIn == 3   \* a peer's headers are among the first messages handed to a node
MaxChain == 3       \* blocks a node may hold ahead of its height in a catch-up run
MaxCascade == 9     \* headers and precommits handed to the node in a catch-up run

(***************************************************************************)
(* crypto/keys.py, crypto/signatures.py, crypto/hashing.py                 *)
(***************************************************************************)
DOMAIN_TX == "TX"
DOMAIN_HEADER == "HEADER"
DOMAIN_VOTE == "VOTE"

DefaultChain == "mainnet"

\* KeyPair: the public key of private key k
PublicKey(k) == <<"pub", k>>

\* a missing signature / public key / proposer signature (None)
None == <<"None">>

\* Signer._create_message: DOMAIN:chain_id:json(data)
CreateMessage(domain, chain_id, data) ==
    [domain |-> domain, chain |-> chain_id, data |-> data]

\* private_key.sign(message)
Sign(private_key, message) == <<"sig", private_key, message>>

\* public_key.verify(signature, message): True unless InvalidSignature
Verify(public_key, signature, message) ==
    /\ Len(signature) = 3
    /\ signature[1] = "sig"
    /\ PublicKey(signature[2]) = public_key
    /\ signature[3] = message

sign_transaction(chain_id, private_key, tx_data) ==
    Sign(private_key, CreateMessage(DOMAIN_TX, chain_id, tx_data))

verify_transaction(chain_id, public_key, tx_data, signature) ==
    Verify(public_key, signature, CreateMessage(DOMAIN_TX, chain_id, tx_data))

sign_header(chain_id, private_key, header_data) ==
    Sign(private_key, CreateMessage(DOMAIN_HEADER, chain_id, header_data))

verify_header(chain_id, public_key, header_data, signature) ==
    Verify(public_key, signature, CreateMessage(DOMAIN_HEADER, chain_id, header_data))

sign_vote(chain_id, private_key, vote_data) ==
    Sign(private_key, CreateMessage(DOMAIN_VOTE, chain_id, vote_data))

\* a plausible slip: the vote check forgets the domain tag
verify_vote_AnyDomain(chain_id, public_key, vote_data, signature) ==
    \E d \in {DOMAIN_TX, DOMAIN_HEADER, DOMAIN_VOTE} :
        Verify(public_key, signature, CreateMessage(d, chain_id, vote_data))

verify_vote(chain_id, public_key, vote_data, signature) ==
    Verify(public_key, signature, CreateMessage(DOMAIN_VOTE, chain_id, vote_data))

\* Hasher.hash_data: SHA-256 of the canonical JSON of data
hash_data(data) == <<"sha256", data>>

(***************************************************************************)
(* execution/transaction.py                                                *)
(***************************************************************************)
Transaction(sender, key, value, signature, public_key) ==
    [sender |-> sender, key |-> key, value |-> value,
     signature |-> signature, public_key |-> public_key]

\* Transaction.to_dict
TxToDict(tx) == [sender |-> tx.sender, key |-> tx.key, value |-> tx.value]

\* a plausible slip: the namespace rule is not enforced
TxVerify_NoNamespace(tx, chain_id) ==
    /\ tx.signature # None
    /\ tx.public_key # None
    /\ verify_transaction(chain_id, tx.public_key, TxToDict(tx), tx.signature)

\* Transaction.verify(chain_id)
TxVerify(tx, chain_id) ==
    /\ tx.signature # None
    /\ tx.public_key # None
    /\ tx.key[1] = tx.sender
    /\ verify_transaction(chain_id, tx.public_key, TxToDict(tx), tx.signature)

(***************************************************************************)
(* execution/state.py: the store is a set of <<key, value>> pairs with     *)
(* at most one pair per key                                                *)
(***************************************************************************)
EmptyState == {}

\* a plausible slip: apply_transaction writes without calling verify()
StateApply_NoVerify(data, tx) ==
    [ok |-> TRUE,
     data |-> {p \in data : p[1] # tx.key} \cup {<<tx.key, tx.value>>}]

\* State.apply_transaction: raises (ok = FALSE) when tx.verify() fails;
\* verify() is called without a chain id, i.e. under the default chain
StateApply(data, tx) ==
    IF ~TxVerify(tx, DefaultChain)
    THEN [ok |-> FALSE, data |-> data]
    ELSE [ok |-> TRUE,
          data |-> {p \in data : p[1] # tx.key} \cup {<<tx.key, tx.value>>}]

\* State.commitment: hash_state(sorted items)
Commitment(data) == hash_data(<<"state", data>>)

(***************************************************************************)
(* execution/block.py                                                      *)
(***************************************************************************)
Genesis == <<"genesis">>

\* Block._compute_hash
ComputeHash(height, parent_hash, transactions, state_hash) ==
    hash_data([height |-> height, parent_hash |-> parent_hash,
               tx_count |-> Len(transactions), state_hash |-> state_hash])

Block(height, parent_hash, transactions, state_hash, proposer_signature) ==
    [height |-> height, parent_hash |-> parent_hash,
     transactions |-> transactions, state_hash |-> state_hash,
     proposer_signature |-> proposer_signature,
     hash |-> ComputeHash(height, parent_hash, transactions, state_hash)]

\* Block.header_data
HeaderData(block) ==
    [height |-> block.height, parent_hash |-> block.parent_hash,
     state_hash |-> block.state_hash]

(***************************************************************************)
(* network/message.py                                                      *)
(***************************************************************************)
TRANSACTION == "transaction"
BLOCK_HEADER == "block_header"
PREVOTE == "prevote"
PRECOMMIT == "precommit"
REQUEST_BLOCK == "request_block"

Message(msg_type, sender_id, data, msg_id) ==
    [msg_type |-> msg_type, sender_id |-> sender_id, data |-> data,
     msg_id |-> msg_id]

(***************************************************************************)
(* network/node.py: the node record                                        *)
(***************************************************************************)
EmptyMap == << >>

\* dict[key] = value
Put(map, key, value) == (key :> value) @@ map

\* del dict[k] for every k <= finalized_height
DropUpTo(map, finalized_height) ==
    [k \in {h \in DOMAIN map : h > finalized_height} |-> map[k]]

\* Node.__init__ followed by set_validators
Node(node_id, is_validator, chain_id, validator_ids) ==
    [node_id |-> node_id,
     is_validator |-> is_validator,
     chain_id |-> chain_id,
     key_pair |-> <<"key", node_id>>,
     state |-> EmptyState,
     ledger |-> << >>,
     pending_transactions |-> << >>,
     current_height |-> 0,
     pending_blocks |-> EmptyMap,
     prevotes |-> EmptyMap,
     precommits |-> EmptyMap,
     seen_messages |-> {},
     validators |-> validator_ids,
     sent_prevotes |-> {},
     sent_precommits |-> {},
     built |-> 0,
     error |-> "",
     out |-> << >>]

\* len(voters) > len(self.validators) / 2
Majority_AtLeastHalf(voters, validators) ==
    2 * Cardinality(voters) >= Cardinality(validators)

Majority(voters, validators) ==
    2 * Cardinality(voters) > Cardinality(validators)

\* book[height][block_hash].add(voter), creating the entries on demand
AddVote(book, height, block_hash, voter) ==
    LET byHash == IF height \in DOMAIN book THEN book[height] ELSE EmptyMap
        voters == IF block_hash \in DOMAIN byHash THEN byHash[block_hash] ELSE {}
    IN  Put(book, height, Put(byHash, block_hash, voters \cup {voter}))

\* book[height][block_hash] when both keys exist, else nothing
VotersOf(book, height, block_hash) ==
    IF height \in DOMAIN book /\ block_hash \in DOMAIN book[height]
    THEN book[height][block_hash] ELSE {}

\* Message(...) built by the node: msg_id is node_id + "_" + time.time()
NewMessage(s, msg_type, data) ==
    Message(msg_type, s.node_id, data,
            IF msg_type \in {PREVOTE, PRECOMMIT}
            THEN <<s.node_id, msg_type, data.data.height, data.data.block_hash>>
            ELSE <<s.node_id, msg_type, s.built>>)

\* self.network.broadcast(self.node_id, message)
Broadcast(s, message) ==
    [s EXCEPT !.out = Append(@, [to |-> "*", msg |-> message]),
              !.built = IF message.msg_type \in {PREVOTE, PRECOMMIT} THEN @ ELSE @ + 1]

\* self.network.send(self.node_id, recipient_id, message)
SendTo(s, recipient_id, message) ==
    [s EXCEPT !.out = Append(@, [to |-> recipient_id, msg |-> message]),
              !.built = IF message.msg_type \in {PREVOTE, PRECOMMIT} THEN @ ELSE @ + 1]

(***************************************************************************)
(* Node._validate_block                                                    *)
(***************************************************************************)
RECURSIVE Replay(_, _, _)
\* the loop of _validate_block over block.transactions on a copy of state
Replay(data, transactions, chain_id) ==
    IF transactions = << >> THEN [ok |-> TRUE, data |-> data]
    ELSE LET tx == Head(transactions)
             r == StateApply(data, tx)
         IN  IF ~TxVerify(tx, chain_id) \/ ~r.ok
             THEN [ok |-> FALSE, data |-> data]
             ELSE Replay(r.data, Tail(transactions), chain_id)

ValidateBlock(s, block) ==
    /\ block.height = s.current_height + 1
    /\ IF s.ledger # << >>
       THEN block.parent_hash = s.ledger[Len(s.ledger)].hash
       ELSE ~(block.height = 1 /\ block.parent_hash # Genesis)
    /\ LET r == Replay(s.state, block.transactions, s.chain_id)
       IN  r.ok /\ Commitment(r.data) = block.state_hash

RECURSIVE ApplyLive(_, _)
\* the loop of _finalize_block over block.transactions on the live state:
\* stops at the first transaction that raises, keeping what was applied
ApplyLive(data, transactions) ==
    IF transactions = << >> THEN [ok |-> TRUE, data |-> data]
    ELSE LET r == StateApply(data, Head(transactions))
         IN  IF ~r.ok THEN [ok |-> FALSE, data |-> data]
             ELSE ApplyLive(r.data, Tail(transactions))

\* a plausible slip: the pending blocks are not cleaned up
CleanupOldData_VotesOnly(s, finalized_height) ==
    [s EXCEPT !.prevotes = DropUpTo(@, finalized_height),
              !.precommits = DropUpTo(@, finalized_height)]

\* Node._cleanup_old_data
CleanupOldData(s, finalized_height) ==
    [s EXCEPT !.prevotes = DropUpTo(@, finalized_height),
              !.precommits = DropUpTo(@, finalized_height),
              !.pending_blocks = DropUpTo(@, finalized_height)]

(***************************************************************************)
(* Vote sending and handling, finalization                                 *)
(***************************************************************************)
RECURSIVE FinalizeBlock(_, _, _)
RECURSIVE TryFinalizeNext(_)
RECURSIVE HandlePrecommit(_, _)
RECURSIVE SendPrecommit(_, _, _)
RECURSIVE HandlePrevote(_, _)
RECURSIVE SendPrevote(_, _)

\* Node._try_finalize_next
TryFinalizeNext(s) ==
    LET next_height == s.current_height + 1 IN
    IF next_height \notin DOMAIN s.pending_blocks THEN s
    ELSE LET block == s.pending_blocks[next_height] IN
         IF /\ Majority(VotersOf(s.precommits, next_height, block.hash), s.validators)
            /\ ValidateBlock(s, block)
         THEN FinalizeBlock(s, next_height, block.hash)
         ELSE s

\* a plausible slip: the height is advanced before the transactions are
\* applied, so an aborted finalize leaves it advanced
FinalizeBlock_HeightFirst(s, height, block_hash) ==
    IF height # s.current_height + 1 THEN s
    ELSE IF s.current_height >= height THEN s
    ELSE IF \/ height \notin DOMAIN s.pending_blocks
            \/ s.pending_blocks[height].hash # block_hash THEN s
    ELSE LET block == s.pending_blocks[height]
             r == ApplyLive(s.state, block.transactions)
         IN  IF ~r.ok THEN [s EXCEPT !.state = r.data, !.current_height = height]
             ELSE TryFinalizeNext(
                    CleanupOldData([s EXCEPT !.state = r.data,
                                             !.ledger = Append(@, block),
                                             !.current_height = height],
                                   height))

\* a plausible slip: the next height is not tried after a block is finalized
FinalizeBlock_NoNext(s, height, block_hash) ==
    IF height # s.current_height + 1 THEN s
    ELSE IF s.current_height >= height THEN s
    ELSE IF \/ height \notin DOMAIN s.pending_blocks
            \/ s.pending_blocks[height].hash # block_hash THEN s
    ELSE LET block == s.pending_blocks[height]
             r == ApplyLive(s.state, block.transactions)
         IN  IF ~r.ok THEN [s EXCEPT !.state = r.data]
             ELSE CleanupOldData([s EXCEPT !.state = r.data,
                                           !.ledger = Append(@, block),
                                           !.current_height = height],
                                 height)

\* Node._finalize_block
FinalizeBlock(s, height, block_hash) ==
    IF height # s.current_height + 1 THEN s
    ELSE IF s.current_height >= height THEN s
    ELSE IF \/ height \notin DOMAIN s.pending_blocks
            \/ s.pending_blocks[height].hash # block_hash THEN s
    ELSE LET block == s.pending_blocks[height]
             r == ApplyLive(s.state, block.transactions)
         IN  IF ~r.ok THEN [s EXCEPT !.state = r.data]
             ELSE TryFinalizeNext(
                    CleanupOldData([s EXCEPT !.state = r.data,
                                             !.ledger = Append(@, block),
                                             !.current_height = height],
                                   height))

\* a plausible slip: the membership test on the voter is missing
HandlePrecommit_AnyVoter(s, message) ==
    LET vote == message.data
        vote_data == vote.data
        height == vote_data.height
        block_hash == vote_data.block_hash
        voter == vote_data.voter
    IN  IF ~verify_vote(s.chain_id, vote.public_key, vote_data, vote.signature) THEN s
        ELSE IF height < s.current_height + 1 THEN s
        ELSE LET s1 == [s EXCEPT !.precommits = AddVote(@, height, block_hash, voter)]
             IN  IF Majority(s1.precommits[height][block_hash], s1.validators)
                 THEN FinalizeBlock(s1, height, block_hash)
                 ELSE s1

\* Node._handle_precommit
HandlePrecommit(s, message) ==
    LET vote == message.data
        vote_data == vote.data
        height == vote_data.height
        block_hash == vote_data.block_hash
        voter == vote_data.voter
    IN  IF ~verify_vote(s.chain_id, vote.public_key, vote_data, vote.signature) THEN s
        ELSE IF height < s.current_height + 1 THEN s
        ELSE IF voter \notin s.validators THEN s
        ELSE LET s1 == [s EXCEPT !.precommits = AddVote(@, height, block_hash, voter)]
             IN  IF Majority(s1.precommits[height][block_hash], s1.validators)
                 THEN FinalizeBlock(s1, height, block_hash)
                 ELSE s1

\* a plausible slip: the test on sent_precommits is missing
SendPrecommit_NoGuard(s, height, block_hash) ==
    LET vote_data == [height |-> height, block_hash |-> block_hash,
                      phase |-> "precommit", voter |-> s.node_id]
        vote == [data |-> vote_data,
                 signature |-> sign_vote(s.chain_id, s.key_pair, vote_data),
                 public_key |-> PublicKey(s.key_pair)]
        message == NewMessage(s, PRECOMMIT, vote)
        s1 == Broadcast(s, message)
        s2 == [s1 EXCEPT !.sent_precommits = @ \cup {<<height, block_hash>>}]
    IN  HandlePrecommit(s2, message)

\* Node._send_precommit
SendPrecommit(s, height, block_hash) ==
    IF <<height, block_hash>> \in s.sent_precommits THEN s
    ELSE LET vote_data == [height |-> height, block_hash |-> block_hash,
                           phase |-> "precommit", voter |-> s.node_id]
             vote == [data |-> vote_data,
                      signature |-> sign_vote(s.chain_id, s.key_pair, vote_data),
                      public_key |-> PublicKey(s.key_pair)]
             message == NewMessage(s, PRECOMMIT, vote)
             s1 == Broadcast(s, message)
             s2 == [s1 EXCEPT !.sent_precommits = @ \cup {<<height, block_hash>>}]
         IN  HandlePrecommit(s2, message)

\* a plausible slip: the test on the vote's height is missing
HandlePrevote_AnyHeight(s, message) ==
    LET vote == message.data
        vote_data == vote.data
        height == vote_data.height
        block_hash == vote_data.block_hash
        voter == vote_data.voter
    IN  IF ~verify_vote(s.chain_id, vote.public_key, vote_data, vote.signature) THEN s
        ELSE IF voter \notin s.validators THEN s
        ELSE LET s1 == [s EXCEPT !.prevotes = AddVote(@, height, block_hash, voter)]
             IN  IF ~Majority(s1.prevotes[height][block_hash], s1.validators) THEN s1
                 ELSE IF s1.is_validator THEN SendPrecommit(s1, height, block_hash)
                 ELSE s1

\* a plausible slip: the precommit is sent whenever a prevote is recorded,
\* without the majority test
HandlePrevote_NoQuorum(s, message) ==
    LET vote == message.data
        vote_data == vote.data
        height == vote_data.height
        block_hash == vote_data.block_hash
        voter == vote_data.voter
    IN  IF ~verify_vote(s.chain_id, vote.public_key, vote_data, vote.signature) THEN s
        ELSE IF height < s.current_height + 1 THEN s
        ELSE IF voter \notin s.validators THEN s
        ELSE LET s1 == [s EXCEPT !.prevotes = AddVote(@, height, block_hash, voter)]
             IN  IF s1.is_validator THEN SendPrecommit(s1, height, block_hash) ELSE s1

\* Node._handle_prevote
HandlePrevote(s, message) ==
    LET vote == message.data
        vote_data == vote.data
        height == vote_data.height
        block_hash == vote_data.block_hash
        voter == vote_data.voter
    IN  IF ~verify_vote(s.chain_id, vote.public_key, vote_data, vote.signature) THEN s
        ELSE IF height < s.current_height + 1 THEN s
        ELSE IF voter \notin s.validators THEN s
        ELSE LET s1 == [s EXCEPT !.prevotes = AddVote(@, height, block_hash, voter)]
             IN  IF ~Majority(s1.prevotes[height][block_hash], s1.validators) THEN s1
                 ELSE LET s2 == IF s1.is_validator
                                THEN SendPrecommit(s1, height, block_hash)
                                ELSE s1
                      IN  IF /\ height \in DOMAIN s2.pending_blocks
                             /\ s2.pending_blocks[height].hash = block_hash
                             /\ <<height, block_hash>> \notin s2.sent_prevotes
                             /\ s2.is_validator
                             /\ ValidateBlock(s2, s2.pending_blocks[height])
                          THEN SendPrevote(s2, s2.pending_blocks[height])
                          ELSE s2

\* Node._send_prevote
SendPrevote(s, block) ==
    IF <<block.height, block.hash>> \in s.sent_prevotes THEN s
    ELSE LET vote_data == [height |-> block.height, block_hash |-> block.hash,
                           phase |-> "prevote", voter |-> s.node_id]
             vote == [data |-> vote_data,
                      signature |-> sign_vote(s.chain_id, s.key_pair, vote_data),
                      public_key |-> PublicKey(s.key_pair)]
             message == NewMessage(s, PREVOTE, vote)
             s1 == Broadcast(s, message)
             s2 == [s1 EXCEPT !.sent_prevotes = @ \cup {<<block.height, block.hash>>}]
         IN  HandlePrevote(s2, message)

(***************************************************************************)
(* Message handlers                                                        *)
(***************************************************************************)
\* hasattr(tx, 'verify'): the payload is a Transaction object
HasVerify(data) ==
    DOMAIN data = {"sender", "key", "value", "signature", "public_key"}

\* Node._handle_transaction
HandleTransaction(s, message) ==
    LET tx == message.data IN
    IF ~HasVerify(tx) THEN s
    ELSE IF TxVerify(tx, s.chain_id)
         THEN [s EXCEPT !.pending_transactions = Append(@, tx)]
         ELSE s

\* Node._handle_block_header
\* a plausible slip: a future block is validated like the next one and
\* dropped when it fails
HandleBlockHeader_ValidateFuture(s, message) ==
    LET block == message.data
        s1 == [s EXCEPT !.pending_blocks = Put(@, block.height, block)]
    IN  IF block.height < s.current_height + 1 THEN s
        ELSE IF ~ValidateBlock(s, block) THEN s
        ELSE IF block.height > s.current_height + 1 THEN s1
        ELSE IF s1.is_validator THEN SendPrevote(s1, block) ELSE s1

\* a plausible slip: the vote is cast before the block is validated
HandleBlockHeader_VoteUnchecked(s, message) ==
    LET block == message.data IN
    IF block.height < s.current_height + 1 THEN s
    ELSE IF block.height > s.current_height + 1
         THEN [s EXCEPT !.pending_blocks = Put(@, block.height, block)]
    ELSE LET s1 == [s EXCEPT !.pending_blocks = Put(@, block.height, block)]
         IN  IF s1.is_validator THEN SendPrevote(s1, block) ELSE s1

\* a plausible slip: the block is stored before it is validated
HandleBlockHeader_StoreFirst(s, message) ==
    LET block == message.data
        s1 == [s EXCEPT !.pending_blocks = Put(@, block.height, block)]
    IN  IF block.height < s.current_height + 1 THEN s
        ELSE IF block.height > s.current_height + 1 THEN s1
        ELSE IF ~ValidateBlock(s, block) THEN s1
        ELSE IF s1.is_validator THEN SendPrevote(s1, block) ELSE s1

HandleBlockHeader(s, message) ==
    LET block == message.data IN
    IF block.height < s.current_height + 1 THEN s
    ELSE IF block.height > s.current_height + 1
         THEN [s EXCEPT !.pending_blocks = Put(@, block.height, block)]
    ELSE IF ~ValidateBlock(s, block) THEN s
    ELSE LET s1 == [s EXCEPT !.pending_blocks = Put(@, block.height, block)]
         IN  IF s1.is_validator THEN SendPrevote(s1, block) ELSE s1

\* Node._handle_block_request; ledger[k - 1] follows Python indexing: a
\* negative index counts from the end and an index out of range raises
HandleBlockRequest(s, message) ==
    LET requested_height == message.data.height
        requester_id == message.data.requester
        n == Len(s.ledger)
        i == requested_height - 1
        idx == IF i < 0 THEN i + n ELSE i
    IN  IF n >= requested_height
        THEN IF idx < 0 \/ idx >= n
             THEN [s EXCEPT !.error = "IndexError"]
             ELSE SendTo(s, requester_id,
                         NewMessage(s, BLOCK_HEADER, s.ledger[idx + 1]))
        ELSE s

\* Node._try_sync; due is current_time - last_sync_time >= sync_interval
\* on the host clock.  At most one key of pending_blocks equals
\* current_height + 1, and both branches that act return from the loop.
TrySync(s, due) ==
    LET height == s.current_height + 1 IN
    IF ~due THEN s
    ELSE IF height \notin DOMAIN s.pending_blocks THEN s
    ELSE LET block == s.pending_blocks[height] IN
         IF /\ Majority(VotersOf(s.precommits, height, block.hash), s.validators)
            /\ ValidateBlock(s, block)
         THEN FinalizeBlock(s, height, block.hash)
         ELSE IF /\ s.is_validator
                 /\ <<height, block.hash>> \notin s.sent_prevotes
                 /\ ValidateBlock(s, block)
              THEN SendPrevote(s, block)
              ELSE s

\* the if/elif chain of receive_message
Dispatch(s, message) ==
    CASE message.msg_type = TRANSACTION -> HandleTransaction(s, message)
      [] message.msg_type = BLOCK_HEADER -> HandleBlockHeader(s, message)
      [] message.msg_type = PREVOTE -> HandlePrevote(s, message)
      [] message.msg_type = PRECOMMIT -> HandlePrecommit(s, message)
      [] message.msg_type = REQUEST_BLOCK -> HandleBlockRequest(s, message)
      [] OTHER -> s

\* a plausible slip: the duplicate check is missing
ReceiveMessage_NoDedupe(s, message, due) ==
    Dispatch(TrySync([s EXCEPT !.seen_messages = @ \cup {message.msg_id}], due),
             message)

\* Node.receive_message
ReceiveMessage(s, message, due) ==
    IF message.msg_id \in s.seen_messages THEN s
    ELSE Dispatch(TrySync([s EXCEPT !.seen_messages = @ \cup {message.msg_id}], due),
                  message)

RECURSIVE ValidTxs(_, _)
\* the loop of propose_block: the transactions that apply, in order, and
\* the speculative state after them
ValidTxs(data, transactions) ==
    IF transactions = << >> THEN [txs |-> << >>, data |-> data]
    ELSE LET r == StateApply(data, Head(transactions))
             rest == ValidTxs(r.data, Tail(transactions))
         IN  IF r.ok
             THEN [txs |-> <<Head(transactions)>> \o rest.txs, data |-> rest.data]
             ELSE rest

\* Node.propose_block
ProposeBlock(s, due) ==
    IF s.pending_transactions = << >> THEN s
    ELSE LET parent_hash == IF s.ledger # << >>
                            THEN s.ledger[Len(s.ledger)].hash ELSE Genesis
             v == ValidTxs(s.state, s.pending_transactions)
         IN  IF v.txs = << >> THEN s
             ELSE LET b == Block(s.current_height + 1, parent_hash, v.txs,
                                 Commitment(v.data), None)
                      block == [b EXCEPT !.proposer_signature =
                                   sign_header(s.chain_id, s.key_pair, HeaderData(b))]
                      message == NewMessage(s, BLOCK_HEADER, block)
                      s1 == ReceiveMessage(Broadcast(s, message), message, due)
                  IN  [s1 EXCEPT !.pending_transactions = << >>]

(***************************************************************************)
(* network/simulator.py: the transport.  A scheduled hop is one entry of   *)
(* message_queue; its delivery time is an input (uniform in                *)
(* [min_delay, max_delay]), so any scheduled hop may be the next to pop.   *)
(***************************************************************************)
NodeIds == {"n1", "n2", "n3"}

\* the registered nodes (register_node)
Registered == DOMAIN nodes

\* the destinations of one entry of a node's out list: broadcast loops
\* over every registered node but the sender, send names one recipient
Destinations(sender_id, o) ==
    IF o.to = "*" THEN Registered \ {sender_id} ELSE {o.to}

\* every call of _deliver_message a handler of sender_id caused
Hops(sender_id, out) ==
    UNION {{[msg |-> out[i].msg, to |-> r, sender |-> sender_id] :
               r \in Destinations(sender_id, out[i])} : i \in 1..Len(out)}

\* NetworkSimulator._deliver_message, for every hop: dropped hops schedule
\* nothing, kept hops one entry, duplicated hops a second entry
Schedule(kept, dups) ==
    {[msg |-> h.msg, to |-> h.to, sender |-> h.sender, copy |-> 1] : h \in kept}
      \cup
    {[msg |-> h.msg, to |-> h.to, sender |-> h.sender, copy |-> 2] : h \in dups}

\* the outcomes random.random() < drop_rate allows: none with rate 0;
\* otherwise every hop on a link of config.cut is dropped and, when
\* config.random_drops, any of the other hops may be dropped as well
KeptChoices(hops) ==
    LET uncut == {h \in hops : <<h.sender, h.to>> \notin config.cut} IN
    IF config.drop_rate = 0 THEN {hops}
    ELSE IF config.random_drops THEN SUBSET uncut
    ELSE {uncut}

\* the outcomes random.random() < duplicate_rate allows for the kept hops
DupChoices(kept) ==
    IF config.duplicate_rate = 0 THEN {{}} ELSE SUBSET kept

\* the value of last when the run is not traced
NoMessage == Message("none", "", None, None)

NoOp == [op |-> "init", node |-> "", msg |-> NoMessage, out |-> << >>]

\* the node's handler has returned r: the transport schedules what it sent
Commit(n, r, queue, op) ==
    \E kept \in KeptChoices(Hops(n, r.out)) : \E dups \in DupChoices(kept) :
        /\ nodes' = [nodes EXCEPT ![n] = [r EXCEPT !.out = << >>]]
        /\ message_queue' = queue \cup Schedule(kept, dups)
        /\ last' = IF config.trace THEN [op EXCEPT !.out = r.out] ELSE NoOp
        /\ UNCHANGED <<collector, sim, signer, finality>>

(***************************************************************************)
(* The transactions clients sign                                           *)
(***************************************************************************)
SignedTx(sender, key, value, chain_id, private_key) ==
    Transaction(sender, key, value,
                sign_transaction(chain_id,
                                 private_key,
                                 [sender |-> sender, key |-> key, value |-> value]),
                PublicKey(private_key))

TxAlice == SignedTx("alice", <<"alice", "balance">>, "100", DefaultChain, "k_alice")
TxBob == SignedTx("bob", <<"bob", "balance">>, "50", DefaultChain, "k_bob")

\* the nodes the orchestrator picks as proposers, and what it hands them
\* at each height (run.py:120)
Proposers == {"n1", "n2"}

TxBatch(n, height) ==
    IF (n = "n1") = (height = 1) THEN <<TxAlice>> ELSE <<TxBob>>

(***************************************************************************)
(* Actions                                                                 *)
(***************************************************************************)
\* NetworkSimulator.process_messages pops a hop and calls receive_message
Deliver(e) ==
    /\ e \in message_queue
    /\ \E due \in BOOLEAN :
         Commit(e.to, ReceiveMessage(nodes[e.to], e.msg, due),
                message_queue \ {e},
                [op |-> "deliver", node |-> e.to, msg |-> e.msg, out |-> << >>])
    /\ UNCHANGED <<config, used>>

\* the orchestrator gives node n a batch and calls propose_block
\* (run.py:120-123, test_e2e.py:46-49)
AssignAndPropose(n) ==
    /\ used.propose < config.proposals
    /\ nodes[n].current_height < MaxHeight
    /\ \E due \in BOOLEAN :
         Commit(n, ProposeBlock([nodes[n] EXCEPT !.pending_transactions =
                                     TxBatch(n, nodes[n].current_height + 1)], due),
                message_queue,
                [op |-> "propose", node |-> n, msg |-> NoMessage, out |-> << >>])
    /\ used' = [used EXCEPT !.propose = @ + 1]
    /\ UNCHANGED config

\* an outsider calls receive_message with a message it built
\* (test_security.py:50-53, 93-103, 444-447)
External(n, msg_type, data, op) ==
    LET message == Message(msg_type, "external", data, <<"external", used.inject>>)
    IN  /\ \E due \in BOOLEAN :
             Commit(n, ReceiveMessage(nodes[n], message, due), message_queue,
                    [op |-> op, node |-> n, msg |-> message, out |-> << >>])
        /\ used' = [used EXCEPT !.inject = @ + 1]
        /\ UNCHANGED config

(***************************************************************************)
(* What an outsider can build.  It owns the key k_att, sees the headers    *)
(* in flight, and can name any voter in a vote it signs itself.            *)
(***************************************************************************)
AttackerKey == "k_att"
OtherChain(chain_id) == IF chain_id = DefaultChain THEN "testnet" ELSE DefaultChain
\* the hash of a block nobody built
BogusHash == ComputeHash(0, Genesis, << >>, Commitment(EmptyState))

VoteData(height, block_hash, phase, voter) ==
    [height |-> height, block_hash |-> block_hash, phase |-> phase, voter |-> voter]

\* a vote payload with a signature made in the way "how"
CraftedVote(chain_id, vote_data, how) ==
    [data |-> vote_data,
     signature |->
        CASE how = "good" -> sign_vote(chain_id, AttackerKey, vote_data)
          [] how = "header_domain" -> sign_header(chain_id, AttackerKey, vote_data)
          [] how = "other_chain" -> sign_vote(OtherChain(chain_id), AttackerKey, vote_data)
          [] how = "altered_height" ->
                sign_vote(chain_id, AttackerKey,
                          [vote_data EXCEPT !.height = @ + 1])
          [] how = "other_key" -> sign_vote(chain_id, "k_other", vote_data),
     public_key |-> PublicKey(AttackerKey)]

SignatureKinds == {"good", "header_domain", "other_chain", "altered_height", "other_key"}

\* the hashes an outsider names in a vote sent to node s
KnownHashes(s) ==
    {s.pending_blocks[h].hash : h \in DOMAIN s.pending_blocks} \cup {BogusHash}

CraftedVotes(s) ==
    {[msg_type |-> phase,
      data |-> CraftedVote(s.chain_id,
                           VoteData(s.current_height + 1, x, phase, voter), how)] :
        phase \in {PREVOTE, PRECOMMIT}, x \in KnownHashes(s),
        voter \in {"n3", "attacker"}, how \in SignatureKinds}

\* transactions: well signed for chain_id, and the ways to get one wrong
CraftedTxs(chain_id) ==
    LET data == [sender |-> "alice", key |-> <<"alice", "balance">>, value |-> "100"]
        good == SignedTx("alice", <<"alice", "balance">>, "100", chain_id, "k_alice")
    IN  {good,
         SignedTx("alice", <<"alice", "balance">>, "100", OtherChain(chain_id), "k_alice"),
         SignedTx("alice", <<"bob", "balance">>, "999999", chain_id, "k_alice"),
         [good EXCEPT !.signature = None],
         [good EXCEPT !.public_key = None],
         [good EXCEPT !.public_key = PublicKey("k_other")],
         [good EXCEPT !.value = "101"],
         [good EXCEPT !.signature = sign_vote(chain_id, "k_alice", data)]}

\* a well-formed block for height 1 on the empty ledger, whose header is
\* unsigned or signed in the wrong domain
CraftedHeaders(chain_id) ==
    LET b == Block(1, Genesis, <<TxBob>>,
                   Commitment(StateApply(EmptyState, TxBob).data), None)
    IN  {b, [b EXCEPT !.proposer_signature =
                    sign_vote(chain_id, AttackerKey, HeaderData(b))]}

Crafted(s) ==
    CraftedVotes(s)
      \cup {[msg_type |-> TRANSACTION, data |-> tx] : tx \in CraftedTxs(s.chain_id)}
      \cup {[msg_type |-> BLOCK_HEADER, data |-> b] : b \in CraftedHeaders(s.chain_id)}

Inject(n) ==
    /\ used.inject < MaxInject
    /\ \E m \in Crafted(nodes[n]) : External(n, m.msg_type, m.data, "inject")

\* forged headers for height 2: a parent that is no block's hash, and a
\* transaction list whose second entry does not verify
ForgedHeaders ==
    {Block(2, BogusHash, <<TxBob>>, Commitment(EmptyState), None),
     Block(2, BogusHash, <<TxBob, [TxAlice EXCEPT !.signature = None]>>,
           Commitment(EmptyState), None)}

\* well-signed votes in the name of the validators n2 and n3 for the
\* blocks node s holds
ForgedVotes(s) ==
    {[msg_type |-> phase,
      data |-> CraftedVote(s.chain_id,
                           VoteData(h, s.pending_blocks[h].hash, phase, voter), "good")] :
        phase \in {PREVOTE, PRECOMMIT}, h \in DOMAIN s.pending_blocks,
        voter \in {"n2", "n3"}}

Forge(n) ==
    /\ used.inject < MaxForge
    /\ \E m \in ForgedVotes(nodes[n])
                  \cup {[msg_type |-> BLOCK_HEADER, data |-> b] : b \in ForgedHeaders} :
          External(n, m.msg_type, m.data, "forge")

\* the headers a peer may send node s for the next height and the one
\* after: a block that validates, one with a wrong parent hash, one with
\* an unsigned transaction, one whose state_hash is the commitment of the
\* store before the transactions
TipHash(s) == IF s.ledger = << >> THEN Genesis ELSE s.ledger[Len(s.ledger)].hash

HeadersFor(s) ==
    LET unsigned == [TxAlice EXCEPT !.signature = None] IN
    UNION {{Block(h, TipHash(s), <<TxBob>>,
                  Commitment(StateApply(s.state, TxBob).data), None),
            Block(h, BogusHash, <<TxBob>>,
                  Commitment(StateApply(s.state, TxBob).data), None),
            Block(h, TipHash(s), <<TxBob, unsigned>>,
                  Commitment(StateApply(s.state, TxBob).data), None),
            Block(h, TipHash(s), <<TxBob>>, Commitment(s.state), None)} :
              h \in {s.current_height + 1, s.current_height + 2}}

\* a peer hands node n one of these headers
Header(n) ==
    /\ used.inject < MaxHeadersIn
    /\ \E b \in HeadersFor(nodes[n]) : External(n, BLOCK_HEADER, b, "header")

(***************************************************************************)
(* consensus/vote.py: Vote and VoteCollector                               *)
(***************************************************************************)
\* Vote.__init__
Vote(height, block_hash, phase, voter_id, signature, public_key) ==
    [height |-> height, block_hash |-> block_hash, phase |-> phase,
     voter_id |-> voter_id, signature |-> signature, public_key |-> public_key]

\* Vote.to_dict
VoteToDict(vote) ==
    [height |-> vote.height, block_hash |-> vote.block_hash,
     phase |-> vote.phase, voter |-> vote.voter_id]

\* Vote.verify
VoteVerify(vote, chain_id) ==
    verify_vote(chain_id, vote.public_key, VoteToDict(vote), vote.signature)

\* set(validator_set)
Elements(validator_set) == {validator_set[i] : i \in 1..Len(validator_set)}

\* VoteCollector.__init__; the books map (height, block_hash) to voter ids
VoteCollector(validator_set, chain_id) ==
    [validators |-> Elements(validator_set),
     total_validators |-> Len(validator_set),
     chain_id |-> chain_id,
     prevotes |-> EmptyMap,
     precommits |-> EmptyMap]

\* book[key].add(voter_id), creating the entry on demand
AddToKey(book, key, voter_id) ==
    Put(book, key, (IF key \in DOMAIN book THEN book[key] ELSE {}) \cup {voter_id})

\* VoteCollector.add_vote: the value returned and the collector afterwards
add_vote(c, vote) ==
    IF ~VoteVerify(vote, c.chain_id) THEN [ok |-> FALSE, c |-> c]
    ELSE IF vote.voter_id \notin c.validators THEN [ok |-> FALSE, c |-> c]
    ELSE LET key == <<vote.height, vote.block_hash>> IN
         [ok |-> TRUE,
          c |-> IF vote.phase = "prevote"
                THEN [c EXCEPT !.prevotes = AddToKey(@, key, vote.voter_id)]
                ELSE IF vote.phase = "precommit"
                THEN [c EXCEPT !.precommits = AddToKey(@, key, vote.voter_id)]
                ELSE c]

\* VoteCollector.has_prevote_majority
has_prevote_majority(c, height, block_hash) ==
    /\ <<height, block_hash>> \in DOMAIN c.prevotes
    /\ 2 * Cardinality(c.prevotes[<<height, block_hash>>]) > c.total_validators

\* VoteCollector.has_precommit_majority
has_precommit_majority(c, height, block_hash) ==
    /\ <<height, block_hash>> \in DOMAIN c.precommits
    /\ 2 * Cardinality(c.precommits[<<height, block_hash>>]) > c.total_validators

\* the collector of a run that uses none
NoCollector == [c |-> VoteCollector(<< >>, DefaultChain), calls |-> << >>]

\* the votes a caller offers a collector: of n1, n2 and an outsider, for
\* one block hash at height 1, in both phases, signed in the VOTE domain or
\* in the HEADER domain (test_consensus.py:33-53)
VotePool(chain_id) ==
    {Vote(1, BogusHash, phase, voter,
          CraftedVote(chain_id, VoteData(1, BogusHash, phase, voter), how).signature,
          PublicKey(AttackerKey)) :
        phase \in {"prevote", "precommit"}, voter \in {"n1", "n2", "attacker"},
        how \in {"good", "header_domain"}}

\* collector.add_vote(vote); calls records the vote and the value returned
Collect ==
    /\ Len(collector.calls) < MaxCalls
    /\ \E vote \in VotePool(collector.c.chain_id) :
          LET r == add_vote(collector.c, vote) IN
          collector' = [c |-> r.c,
                        calls |-> Append(collector.calls, [vote |-> vote, ok |-> r.ok])]
    /\ UNCHANGED <<nodes, message_queue, config, used, last, sim, signer, finality>>

(***************************************************************************)
(* network/simulator.py in virtual time.  Times are counted in hundredths  *)
(* of a simulated second; sim is the NetworkSimulator object: its clock,   *)
(* its heap (the list PriorityQueue.queue), its per-sender counters and    *)
(* its event log, and whether the last call on it raised TypeError.        *)
(***************************************************************************)
Second == 100

\* the order of the node ids as Python strings, which is also the order
\* in which the set-up registers the nodes
NodeRank == [n1 |-> 1, n2 |-> 2, n3 |-> 3]

\* NetworkEvent(event_type, timestamp, node_id, message, details); of the
\* details the model keeps the recipient a send event names ("*" when
\* the call was a broadcast, "" in every other event)
NetworkEvent(event_type, timestamp, node_id, message, recipient) ==
    [event |-> event_type, time |-> timestamp, node |-> node_id,
     msg_id |-> message.msg_id, recipient |-> recipient]

\* the tuple (delivery_time, message, recipient_id, sender_id)
Entry(delivery_time, message, recipient_id, sender_id) ==
    [time |-> delivery_time, msg |-> message, to |-> recipient_id,
     sender |-> sender_id]

\* a < b on two such tuples: the first components that differ decide, and
\* Message defines no ordering, so two entries of one delivery time that
\* carry different messages cannot be compared
EntryLess(a, b) ==
    IF a.time # b.time THEN (IF a.time < b.time THEN "True" ELSE "False")
    ELSE IF a.msg.msg_id # b.msg.msg_id THEN "TypeError"
    ELSE IF a.to # b.to
         THEN (IF NodeRank[a.to] < NodeRank[b.to] THEN "True" ELSE "False")
    ELSE IF a.sender # b.sender
         THEN (IF NodeRank[a.sender] < NodeRank[b.sender] THEN "True" ELSE "False")
    ELSE "False"

Swap(heap, i, j) == [heap EXCEPT ![i] = heap[j], ![j] = heap[i]]

\* heapq's sift towards the root (positions count from 1); ok is FALSE
\* when a comparison raised, and the list stays as the sift left it
RECURSIVE siftdown(_, _, _)
siftdown(heap, startpos, pos) ==
    IF pos <= startpos THEN [heap |-> heap, ok |-> TRUE]
    ELSE LET parentpos == pos \div 2
             cmp == EntryLess(heap[pos], heap[parentpos])
         IN  IF cmp = "TypeError" THEN [heap |-> heap, ok |-> FALSE]
             ELSE IF cmp = "False" THEN [heap |-> heap, ok |-> TRUE]
             ELSE siftdown(Swap(heap, pos, parentpos), startpos, parentpos)

\* heapq's sift towards the leaves: the smaller child moves up until a
\* leaf is reached, then the item is sifted back towards pos
RECURSIVE siftup_from(_, _, _)
siftup_from(heap, startpos, pos) ==
    IF 2 * pos > Len(heap) THEN siftdown(heap, startpos, pos)
    ELSE LET left == 2 * pos
             cmp == IF left + 1 <= Len(heap)
                    THEN EntryLess(heap[left], heap[left + 1]) ELSE "True"
             childpos == IF cmp = "False" THEN left + 1 ELSE left
         IN  IF cmp = "TypeError" THEN [heap |-> heap, ok |-> FALSE]
             ELSE siftup_from(Swap(heap, pos, childpos), startpos, childpos)

\* PriorityQueue.put(item): the item is appended, then sifted
heappush(heap, item) == siftdown(Append(heap, item), 1, Len(heap) + 1)

\* PriorityQueue.get() on a non-empty queue: the last item replaces the
\* root and is sifted; the old root is returned unless a comparison raised
heappop(heap) ==
    LET n == Len(heap) - 1
        lastelt == heap[Len(heap)]
        rest == SubSeq(heap, 1, n)
    IN  IF n = 0 THEN [heap |-> << >>, ok |-> TRUE, item |-> lastelt]
        ELSE LET r == siftup_from([rest EXCEPT ![1] = lastelt], 1, 1)
             IN  [heap |-> r.heap, ok |-> r.ok, item |-> heap[1]]

\* NetworkSimulator.__init__ followed by register_node for every id
NetworkSimulator(ids) ==
    [current_time |-> 0,
     queue |-> << >>,
     events |-> << >>,
     node_send_counts |-> [n \in ids |-> [count |-> 0, window_start |-> 0]],
     raised |-> FALSE]

\* the simulator of a run that is not followed in virtual time
NoSimulator == NetworkSimulator({})

\* a limiter that counts the calls it rejects
check_rate_limit_CountRejected(sm, node_id) ==
    LET c == sm.node_send_counts[node_id] IN
    IF sm.current_time - c.window_start >= Second
    THEN [ok |-> TRUE,
          sim |-> [sm EXCEPT !.node_send_counts[node_id] =
                                 [count |-> 1, window_start |-> sm.current_time]]]
    ELSE IF c.count >= config.rate_limit
         THEN [ok |-> FALSE,
               sim |-> [sm EXCEPT !.node_send_counts[node_id].count = @ + 1]]
    ELSE [ok |-> TRUE,
          sim |-> [sm EXCEPT !.node_send_counts[node_id].count = @ + 1]]

\* NetworkSimulator._check_rate_limit: the value returned and the
\* simulator afterwards
check_rate_limit(sm, node_id) ==
    LET c == sm.node_send_counts[node_id] IN
    IF sm.current_time - c.window_start >= Second
    THEN [ok |-> TRUE,
          sim |-> [sm EXCEPT !.node_send_counts[node_id] =
                                 [count |-> 1, window_start |-> sm.current_time]]]
    ELSE IF c.count >= config.rate_limit THEN [ok |-> FALSE, sim |-> sm]
    ELSE [ok |-> TRUE,
          sim |-> [sm EXCEPT !.node_send_counts[node_id].count = @ + 1]]

\* the outcomes of random.random() < rate, the rate in percent
Chance(rate) == IF rate <= 0 THEN {FALSE} ELSE IF rate >= 100 THEN {TRUE} ELSE BOOLEAN

\* random.uniform(min_delay, max_delay) and random.uniform(0.01, 0.1)
DelayChoices == {config.min_delay, config.max_delay}
JitterChoices == {1, 10}

\* message_queue.put(...) followed by the event that logs it; when put
\* raises, the entry stays where the sift left it and nothing is logged
Put_Logged(sm, delivery_time, event_type, sender_id, recipient_id, message) ==
    LET p == heappush(sm.queue,
                      Entry(delivery_time, message, recipient_id, sender_id))
    IN  IF ~p.ok THEN [sm EXCEPT !.queue = p.heap, !.raised = TRUE]
        ELSE [sm EXCEPT !.queue = p.heap,
                        !.events = Append(@, NetworkEvent(event_type, sm.current_time,
                                                          recipient_id, message, ""))]

\* NetworkSimulator._deliver_message: every simulator it may leave
deliver_message(sm, sender_id, recipient_id, message) ==
    UNION {IF dropped
           THEN {[sm EXCEPT !.events =
                      Append(@, NetworkEvent("drop", sm.current_time,
                                             recipient_id, message, ""))]}
           ELSE UNION {
                  LET s1 == Put_Logged(sm, sm.current_time + delay, "delay",
                                       sender_id, recipient_id, message)
                  IN  IF s1.raised THEN {s1}
                      ELSE UNION {IF ~dup THEN {s1}
                                  ELSE {Put_Logged(s1, sm.current_time + delay + j,
                                                   "duplicate", sender_id,
                                                   recipient_id, message) :
                                           j \in JitterChoices} :
                                     dup \in Chance(config.duplicate_rate)} :
                     delay \in DelayChoices} :
             dropped \in Chance(config.drop_rate)}

\* the ids of a set in registration order
RECURSIVE InOrder(_)
InOrder(ids) ==
    IF ids = {} THEN << >>
    ELSE LET first == CHOOSE n \in ids : \A m \in ids : NodeRank[n] <= NodeRank[m]
         IN  <<first>> \o InOrder(ids \ {first})

\* the loop over the destinations; an exception ends it
RECURSIVE DeliverAll(_, _, _, _)
DeliverAll(sm, sender_id, recipients, message) ==
    IF recipients = << >> \/ sm.raised THEN {sm}
    ELSE UNION {DeliverAll(s1, sender_id, Tail(recipients), message) :
                   s1 \in deliver_message(sm, sender_id, Head(recipients), message)}

\* NetworkSimulator.broadcast (to = "*") and NetworkSimulator.send
Transmit(sm, sender_id, to, message) ==
    LET r == check_rate_limit(sm, sender_id) IN
    IF ~r.ok
    THEN {[r.sim EXCEPT !.events = Append(@, NetworkEvent("rate_limited", sm.current_time,
                                                          sender_id, message, ""))]}
    ELSE DeliverAll([r.sim EXCEPT !.events =
                         Append(@, NetworkEvent("send", sm.current_time,
                                                sender_id, message, to))],
                    sender_id,
                    IF to = "*" THEN InOrder(DOMAIN nodes \ {sender_id}) ELSE <<to>>,
                    message)

\* the broadcast and send calls of a handler, in the order it made them
RECURSIVE TransmitAll(_, _, _)
TransmitAll(sm, sender_id, out) ==
    IF out = << >> \/ sm.raised THEN {sm}
    ELSE UNION {TransmitAll(s1, sender_id, Tail(out)) :
                   s1 \in Transmit(sm, sender_id, Head(out).to, Head(out).msg)}

\* the loop of NetworkSimulator.process_messages on the pair w of the
\* nodes and the simulator: every pair it may leave
RECURSIVE process_loop(_, _)
process_loop(w, until_time) ==
    IF w.sim.queue = << >> \/ w.sim.raised THEN {w}
    ELSE IF w.sim.queue[1].time > until_time THEN {w}
    ELSE LET p == heappop(w.sim.queue)
             e == p.item
             s1 == [w.sim EXCEPT !.queue = p.heap, !.current_time = e.time]
         IN  IF ~p.ok THEN {[w EXCEPT !.sim.queue = p.heap, !.sim.raised = TRUE]}
             ELSE IF e.to \notin DOMAIN w.nodes
                  THEN process_loop([w EXCEPT !.sim = s1], until_time)
             ELSE UNION {
                    LET r == ReceiveMessage(w.nodes[e.to], e.msg, due)
                        ns == [w.nodes EXCEPT ![e.to] = [r EXCEPT !.out = << >>]]
                    IN  UNION {
                          IF s2.raised THEN {[nodes |-> ns, sim |-> s2]}
                          ELSE process_loop(
                                 [nodes |-> ns,
                                  sim |-> [s2 EXCEPT !.events =
                                             Append(@, NetworkEvent("receive", e.time,
                                                                    e.to, e.msg, ""))]],
                                 until_time) :
                             s2 \in TransmitAll(s1, e.to, r.out)} :
                       due \in BOOLEAN}

\* NetworkSimulator.process_messages(until_time)
process_messages(w, until_time) ==
    {IF x.sim.raised THEN x ELSE [x EXCEPT !.sim.current_time = until_time] :
        x \in process_loop(w, until_time)}

\* a test calls network.send with a message it built for a transaction
\* (test_network.py:29-30, 121-123)
NetSend(sender_id, recipient_id) ==
    /\ used.inject < MaxSends
    /\ \E s1 \in Transmit([sim EXCEPT !.raised = FALSE], sender_id, recipient_id,
                          Message(TRANSACTION, sender_id, TxAlice,
                                  <<sender_id, used.inject>>)) :
          sim' = s1
    /\ used' = [used EXCEPT !.inject = @ + 1]
    /\ UNCHANGED <<nodes, message_queue, config, last, collector, signer, finality>>

\* a test calls network.broadcast (test_network.py:56-57)
NetBroadcast(sender_id) ==
    /\ used.inject < MaxSends
    /\ \E s1 \in Transmit([sim EXCEPT !.raised = FALSE], sender_id, "*",
                          Message(TRANSACTION, sender_id, TxAlice,
                                  <<sender_id, used.inject>>)) :
          sim' = s1
    /\ used' = [used EXCEPT !.inject = @ + 1]
    /\ UNCHANGED <<nodes, message_queue, config, last, collector, signer, finality>>

\* NetworkSimulator.step(duration)
StepDurations == {50, 100}

Step(duration) ==
    /\ sim.current_time + duration <= MaxTime
    /\ \E x \in process_messages([nodes |-> nodes,
                                  sim |-> [sim EXCEPT !.raised = FALSE]],
                                 sim.current_time + duration) :
          /\ nodes' = x.nodes
          /\ sim' = x.sim
    /\ UNCHANGED <<message_queue, config, used, last, collector, signer, finality>>

(***************************************************************************)
(* crypto/signatures.py, character by character.  A string is the          *)
(* sequence of its characters; a payload is a JSON value: a string, an     *)
(* int, or a dict of string keys (kind tells which, the other fields are   *)
(* empty).                                                                 *)
(***************************************************************************)
Quote == "\""
Backslash == "\\"

JsonStr(chars) == [kind |-> "str", text |-> chars, num |-> 0, items |-> {}]
JsonInt(n) == [kind |-> "int", text |-> << >>, num |-> n, items |-> {}]
\* items: the set of the dict's [key, value] pairs, one per key
JsonDict(items) == [kind |-> "dict", text |-> << >>, num |-> 0, items |-> items]

\* the code points of the characters the universe uses
CodePoint(c) ==
    CASE c = " " -> 32 [] c = Quote -> 34 [] c = "," -> 44 [] c = "1" -> 49
      [] c = "2" -> 50 [] c = ":" -> 58 [] c = Backslash -> 92 [] c = "h" -> 104
      [] c = "m" -> 109 [] c = "v" -> 118 [] c = "{" -> 123 [] c = "}" -> 125
      [] OTHER -> 0

\* a < b on two Python strings
RECURSIVE StrLess(_, _)
StrLess(a, b) ==
    IF b = << >> THEN FALSE
    ELSE IF a = << >> THEN TRUE
    ELSE IF Head(a) # Head(b) THEN CodePoint(Head(a)) < CodePoint(Head(b))
    ELSE StrLess(Tail(a), Tail(b))

\* json.dumps on a string: the quote and the backslash are escaped
RECURSIVE Escape(_)
Escape(chars) ==
    IF chars = << >> THEN << >>
    ELSE (IF Head(chars) \in {Quote, Backslash}
          THEN <<Backslash, Head(chars)>> ELSE <<Head(chars)>>)
         \o Escape(Tail(chars))

\* json.dumps on an int below 100
Digit(d) == IF d = 1 THEN "1" ELSE IF d = 2 THEN "2" ELSE "0"

Decimal(n) == IF n < 10 THEN <<Digit(n)>> ELSE <<Digit(n \div 10), Digit(n % 10)>>

\* sort_keys=True: the pairs of a dict in the order of their keys
RECURSIVE SortedItems(_)
SortedItems(items) ==
    IF items = {} THEN << >>
    ELSE LET first == CHOOSE i \in items :
                         \A j \in items : j = i \/ StrLess(i.key, j.key)
         IN  <<first>> \o SortedItems(items \ {first})

\* json.dumps(data, sort_keys=True)
RECURSIVE json_dumps(_)
RECURSIVE JoinItems(_)
JoinItems(pairs) ==
    IF pairs = << >> THEN << >>
    ELSE <<Quote>> \o Escape(Head(pairs).key) \o <<Quote, ":", " ">>
         \o json_dumps(Head(pairs).value)
         \o (IF Tail(pairs) = << >> THEN << >> ELSE <<",", " ">>)
         \o JoinItems(Tail(pairs))

json_dumps(data) ==
    IF data.kind = "str" THEN <<Quote>> \o Escape(data.text) \o <<Quote>>
    ELSE IF data.kind = "int" THEN Decimal(data.num)
    ELSE <<"{">> \o JoinItems(SortedItems(data.items)) \o <<"}">>

\* the characters of the three domain tags
DomainText(domain) ==
    IF domain = DOMAIN_TX THEN <<"T", "X">>
    ELSE IF domain = DOMAIN_HEADER THEN <<"H", "E", "A", "D", "E", "R">>
    ELSE <<"V", "O", "T", "E">>

\* a plausible slip: the chain id is left out of the signed text
create_message_NoChain(domain, chain_id, data) ==
    DomainText(domain) \o <<":">> \o json_dumps(data)

\* Signer._create_message: f"{domain}:{self.chain_id}:{json.dumps(data, sort_keys=True)}"
create_message(domain, chain_id, data) ==
    DomainText(domain) \o <<":">> \o chain_id \o <<":">> \o json_dumps(data)

\* sign_transaction, sign_header, sign_vote, by the domain they use
sign(domain, chain_id, private_key, data) ==
    Sign(private_key, create_message(domain, chain_id, data))

\* verify_transaction, verify_header, verify_vote, by the domain they use
verify(domain, chain_id, public_key, data, signature) ==
    Verify(public_key, signature, create_message(domain, chain_id, data))

\* the strings of at most two characters over m, the colon and the quote
ShortStrings ==
    LET A == {"m", ":", Quote} IN
    {<< >>} \cup {<<a>> : a \in A} \cup {<<a, b>> : a \in A, b \in A}

\* what a Signer is asked to sign: strings, ints, and vote-like dicts of a
\* height and a voter
Payloads ==
    {JsonStr(s) : s \in ShortStrings}
      \cup {JsonInt(1), JsonInt(2), JsonInt(12)}
      \cup {JsonDict({[key |-> <<"h">>, value |-> height]}) :
               height \in {JsonInt(1), JsonInt(2), JsonStr(<<"1">>)}}
      \cup {JsonDict({[key |-> <<"h">>, value |-> JsonInt(height)],
                      [key |-> <<"v">>, value |-> JsonStr(<<"m">>)]}) :
               height \in {1, 2}}

Domains == {DOMAIN_TX, DOMAIN_HEADER, DOMAIN_VOTE}
SignerKeys == {"k_alice", "k_bob"}

\* the use of a Signer that a run without one leaves untouched
NoSigner ==
    [stage |-> "none", domain |-> DOMAIN_TX, chain_id |-> << >>,
     data |-> JsonInt(1), private_key |-> "k_alice", signature |-> None,
     presented |-> [domain |-> DOMAIN_TX, chain_id |-> << >>, data |-> JsonInt(1),
                    private_key |-> "k_alice"],
     ok |-> FALSE]

\* Signer(chain_id).sign_*(private_key, data)
SignPayload ==
    /\ signer.stage = "drawn"
    /\ signer' = [signer EXCEPT
                    !.stage = "signed",
                    !.signature = sign(signer.domain, signer.chain_id,
                                       signer.private_key, signer.data)]
    /\ UNCHANGED <<nodes, message_queue, config, used, last, collector, sim, finality>>

\* Signer(chain_id).verify_*(public_key, data, signature) on the signature
\* made before
Present(domain, chain_id, data, private_key) ==
    /\ signer.stage = "signed"
    /\ signer' = [signer EXCEPT
                    !.stage = "presented",
                    !.presented = [domain |-> domain, chain_id |-> chain_id,
                                   data |-> data, private_key |-> private_key],
                    !.ok = verify(domain, chain_id, PublicKey(private_key), data,
                                  signer.signature)]
    /\ UNCHANGED <<nodes, message_queue, config, used, last, collector, sim, finality>>

(***************************************************************************)
(* consensus/finality.py: FinalityManager.  finality holds the manager     *)
(* and the last call made on it.                                           *)
(***************************************************************************)
\* FinalityManager.__init__; pending_blocks maps a height to the hashes
\* of the blocks added for it
FinalityManager(validator_set) ==
    [validators |-> Elements(validator_set),
     finalized_blocks |-> EmptyMap,
     pending_blocks |-> EmptyMap]

\* FinalityManager.add_pending_block
add_pending_block(fm, height, block_hash) ==
    [fm EXCEPT !.pending_blocks =
        Put(@, height, (IF height \in DOMAIN @ THEN @[height] ELSE {}) \cup {block_hash})]

\* a plausible slip: the test for an already finalized height is missing
try_finalize_NoGuard(fm, height, block_hash, precommit_votes) ==
    IF 2 * Len(precommit_votes) <= Cardinality(fm.validators)
    THEN [ok |-> FALSE, fm |-> fm]
    ELSE [ok |-> TRUE,
          fm |-> [fm EXCEPT !.finalized_blocks = Put(@, height, block_hash)]]

\* FinalityManager.try_finalize: the value returned and the manager
\* afterwards; vote.verify() checks against the default chain id
try_finalize(fm, height, block_hash, precommit_votes) ==
    IF height \in DOMAIN fm.finalized_blocks THEN [ok |-> FALSE, fm |-> fm]
    ELSE IF 2 * Len(precommit_votes) <= Cardinality(fm.validators)
    THEN [ok |-> FALSE, fm |-> fm]
    ELSE IF \E i \in 1..Len(precommit_votes) :
               \/ ~VoteVerify(precommit_votes[i], DefaultChain)
               \/ precommit_votes[i].voter_id \notin fm.validators
    THEN [ok |-> FALSE, fm |-> fm]
    ELSE [ok |-> TRUE,
          fm |-> [fm EXCEPT !.finalized_blocks = Put(@, height, block_hash)]]

\* FinalityManager.is_finalized
is_finalized(fm, height, block_hash) ==
    /\ height \in DOMAIN fm.finalized_blocks
    /\ fm.finalized_blocks[height] = block_hash

\* FinalityManager.check_safety: no height of finalized_blocks is met
\* twice with different hashes
check_safety(fm) ==
    \A h1 \in DOMAIN fm.finalized_blocks : \A h2 \in DOMAIN fm.finalized_blocks :
        h1 = h2 => fm.finalized_blocks[h1] = fm.finalized_blocks[h2]

\* the blocks and the lists of votes a caller hands the manager
\* (test_consensus.py:89-128)
OtherHash == ComputeHash(1, Genesis, << >>, Commitment(EmptyState))
FinalityHashes == {BogusHash, OtherHash}
FinalityHeights == {1, 2}

\* precommits of n1, n2 and an outsider signed as votes, and one of n1
\* signed in the HEADER domain
FinalityVotes ==
    {v \in VotePool(DefaultChain) :
        /\ v.phase = "precommit"
        /\ VoteVerify(v, DefaultChain) \/ v.voter_id = "n1"}

VoteLists ==
    LET pool == FinalityVotes IN
    {<< >>} \cup {<<v>> : v \in pool} \cup {<<v, w>> : v \in pool, w \in pool}

NoCall == [op |-> "none", height |-> 0, block_hash |-> BogusHash,
           votes |-> << >>, ok |-> FALSE]

\* the manager of a run that uses none
NoFinality == [fm |-> FinalityManager(<< >>), call |-> NoCall]

\* fm.add_pending_block(block)
AddPendingBlock ==
    /\ \E height \in FinalityHeights, block_hash \in FinalityHashes :
          finality' = [fm |-> add_pending_block(finality.fm, height, block_hash),
                       call |-> [op |-> "add_pending_block", height |-> height,
                                 block_hash |-> block_hash, votes |-> << >>,
                                 ok |-> FALSE]]
    /\ UNCHANGED <<nodes, message_queue, config, used, last, collector, sim, signer>>

\* fm.try_finalize(height, block_hash, votes)
TryFinalize ==
    /\ \E height \in FinalityHeights, block_hash \in FinalityHashes,
          votes \in VoteLists :
          LET r == try_finalize(finality.fm, height, block_hash, votes) IN
          finality' = [fm |-> r.fm,
                       call |-> [op |-> "try_finalize", height |-> height,
                                 block_hash |-> block_hash, votes |-> votes,
                                 ok |-> r.ok]]
    /\ UNCHANGED <<nodes, message_queue, config, used, last, collector, sim, signer>>

(***************************************************************************)
(* Specifications                                                          *)
(***************************************************************************)
\* the set-up of run.py and the tests: every node of ids a validator on
\* chain_id, then set_validators(validator_ids) on each
InitNodes(ids, chain_id, validator_ids) ==
    [n \in ids |-> Node(n, TRUE, chain_id, validator_ids)]

NoFaults == [drop_rate |-> 0, duplicate_rate |-> 0, cut |-> {},
             random_drops |-> FALSE, trace |-> FALSE, proposals |-> 1]

\* two registered validators of three, every step recorded in last, one
\* proposal, an outsider crafting messages for n1; the chain id is a
\* parameter of the run
Init ==
    /\ \E chain_id \in {DefaultChain, "testnet"} :
          nodes = InitNodes({"n1", "n2"}, chain_id, NodeIds)
    /\ message_queue = {}
    /\ config = [NoFaults EXCEPT !.trace = TRUE]
    /\ used = [inject |-> 0, propose |-> 0]
    /\ last = NoOp
    /\ collector = NoCollector
    /\ sim = NoSimulator
    /\ signer = NoSigner
    /\ finality = NoFinality

Next ==
    \/ \E e \in message_queue : Deliver(e)
    \/ \E n \in Proposers : AssignAndPropose(n)
    \/ Inject("n1")

Spec == Init /\ [][Next]_vars

\* three honest validators, two of which cannot reach each other, and an
\* orchestrator that may pick either as proposer
InitHonest ==
    /\ nodes = InitNodes(NodeIds, DefaultChain, NodeIds)
    /\ message_queue = {}
    /\ config = [NoFaults EXCEPT !.drop_rate = 1,
                                 !.cut = {<<"n1", "n2">>, <<"n2", "n1">>},
                                 !.proposals = MaxProposals]
    /\ used = [inject |-> 0, propose |-> 0]
    /\ last = NoOp
    /\ collector = NoCollector
    /\ sim = NoSimulator
    /\ signer = NoSigner
    /\ finality = NoFinality

NextHonest ==
    \/ \E e \in message_queue : Deliver(e)
    \/ \E n \in Proposers : AssignAndPropose(n)

SpecHonest == InitHonest /\ [][NextHonest]_vars

\* three honest validators, no drops, no duplicates, one proposal
InitLive ==
    /\ nodes = InitNodes(NodeIds, DefaultChain, NodeIds)
    /\ message_queue = {}
    /\ config = NoFaults
    /\ used = [inject |-> 0, propose |-> 0]
    /\ last = NoOp
    /\ collector = NoCollector
    /\ sim = NoSimulator
    /\ signer = NoSigner
    /\ finality = NoFinality

NextLive ==
    \/ \E e \in message_queue : Deliver(e)
    \/ \E n \in Proposers : AssignAndPropose(n)

SpecLive == InitLive /\ [][NextLive]_vars

\* one registered validator of three and an outsider forging the votes of
\* the other two
InitForge ==
    /\ nodes = InitNodes({"n1"}, DefaultChain, NodeIds)
    /\ message_queue = {}
    /\ config = NoFaults
    /\ used = [inject |-> 0, propose |-> 0]
    /\ last = NoOp
    /\ collector = NoCollector
    /\ sim = NoSimulator
    /\ signer = NoSigner
    /\ finality = NoFinality

NextForge ==
    \/ AssignAndPropose("n1")
    \/ Forge("n1")

SpecForge == InitForge /\ [][NextForge]_vars

\* a relay takes a signed vote it sees in flight and hands its vote dict to
\* the destination under the other message type
OtherPhase(msg_type) == IF msg_type = PREVOTE THEN PRECOMMIT ELSE PREVOTE

ReplayVote ==
    /\ used.inject < MaxInject
    /\ \E e \in message_queue :
          /\ e.msg.msg_type \in {PREVOTE, PRECOMMIT}
          /\ External(e.to, OtherPhase(e.msg.msg_type), e.msg.data, "replay")

\* two registered validators of three, one proposal, every step recorded,
\* and a relay re-sending votes under the other message type
InitReplay ==
    /\ nodes = InitNodes({"n1", "n2"}, DefaultChain, NodeIds)
    /\ message_queue = {}
    /\ config = [NoFaults EXCEPT !.trace = TRUE]
    /\ used = [inject |-> 0, propose |-> 0]
    /\ last = NoOp
    /\ collector = NoCollector
    /\ sim = NoSimulator
    /\ signer = NoSigner
    /\ finality = NoFinality

NextReplay ==
    \/ \E e \in message_queue : Deliver(e)
    \/ \E n \in Proposers : AssignAndPropose(n)
    \/ ReplayVote

SpecReplay == InitReplay /\ [][NextReplay]_vars

\* what clients submit: alice's transaction for chain_id, and alice
\* writing a key of bob's namespace with a valid signature
\* (test_security.py:393-408)
ClientTxs(chain_id) ==
    {SignedTx("alice", <<"alice", "balance">>, "100", chain_id, "k_alice"),
     SignedTx("alice", <<"bob", "balance">>, "999999", chain_id, "k_alice")}

\* a client hands node n a transaction message (test_security.py:50-53)
HandTx(n) ==
    /\ used.inject < MaxInject
    /\ \E tx \in ClientTxs(nodes[n].chain_id) :
          External(n, TRANSACTION, tx, "inject")

\* the caller hands the message of the last call to the same node again
\* (test_security.py:160-164)
Again ==
    /\ used.inject < MaxInject
    /\ last.op \in {"inject", "again"}
    /\ \E due \in BOOLEAN :
          Commit(last.node, ReceiveMessage(nodes[last.node], last.msg, due),
                 message_queue,
                 [op |-> "again", node |-> last.node, msg |-> last.msg, out |-> << >>])
    /\ used' = [used EXCEPT !.inject = @ + 1]
    /\ UNCHANGED config

\* two registered validators of three on a transport that may duplicate
\* any hop, one proposal, clients handing transactions to n1
InitDup ==
    /\ nodes = InitNodes({"n1", "n2"}, DefaultChain, NodeIds)
    /\ message_queue = {}
    /\ config = [NoFaults EXCEPT !.duplicate_rate = 1, !.trace = TRUE]
    /\ used = [inject |-> 0, propose |-> 0]
    /\ last = NoOp
    /\ collector = NoCollector
    /\ sim = NoSimulator
    /\ signer = NoSigner
    /\ finality = NoFinality

NextDup ==
    \/ \E e \in message_queue : Deliver(e)
    \/ \E n \in Proposers : AssignAndPropose(n)
    \/ HandTx("n1")
    \/ Again

SpecDup == InitDup /\ [][NextDup]_vars

\* alice writing bob's key, validly signed (test_security.py:393-408)
TxRogue == SignedTx("alice", <<"bob", "balance">>, "999999", DefaultChain, "k_alice")

RECURSIVE ForceApply(_, _)
\* the store a block builder gets by writing every transaction of the list
\* without verifying any
ForceApply(data, transactions) ==
    IF transactions = << >> THEN data
    ELSE LET tx == Head(transactions)
         IN  ForceApply({p \in data : p[1] # tx.key} \cup {<<tx.key, tx.value>>},
                        Tail(transactions))

\* headers built outside node s for its next two heights on top of its
\* ledger, carrying TxRogue, with the state hash of a store that wrote it
RogueHeaders(s) ==
    {Block(h, IF s.ledger = << >> THEN Genesis ELSE s.ledger[Len(s.ledger)].hash,
           txs, Commitment(ForceApply(s.state, txs)), None) :
        h \in {s.current_height + 1, s.current_height + 2},
        txs \in {<<TxRogue>>, <<TxBob, TxRogue>>}}

\* an outsider hands node n a header carrying TxRogue, votes in the name
\* of n2 and n3 for a block n holds, or TxRogue itself
Rogue(n) ==
    /\ used.inject < MaxForge
    /\ \E m \in ForgedVotes(nodes[n])
                  \cup {[msg_type |-> BLOCK_HEADER, data |-> b] : b \in RogueHeaders(nodes[n])}
                  \cup {[msg_type |-> TRANSACTION, data |-> TxRogue]} :
          External(n, m.msg_type, m.data, "forge")

\* the orchestrator assigns node n a batch that contains TxRogue and calls
\* propose_block (run.py:114-118)
AssignRogueAndPropose(n) ==
    /\ used.propose < config.proposals
    /\ nodes[n].current_height < MaxHeight
    /\ \E batch \in {<<TxRogue>>, <<TxRogue, TxAlice>>} : \E due \in BOOLEAN :
         Commit(n, ProposeBlock([nodes[n] EXCEPT !.pending_transactions = batch], due),
                message_queue,
                [op |-> "propose", node |-> n, msg |-> NoMessage, out |-> << >>])
    /\ used' = [used EXCEPT !.propose = @ + 1]
    /\ UNCHANGED config

\* one registered validator of three, every step recorded, an outsider
\* pushing TxRogue through every entry of the node
InitAuth ==
    /\ nodes = InitNodes({"n1"}, DefaultChain, NodeIds)
    /\ message_queue = {}
    /\ config = [NoFaults EXCEPT !.trace = TRUE]
    /\ used = [inject |-> 0, propose |-> 0]
    /\ last = NoOp
    /\ collector = NoCollector
    /\ sim = NoSimulator
    /\ signer = NoSigner
    /\ finality = NoFinality

NextAuth ==
    \/ AssignAndPropose("n1")
    \/ AssignRogueAndPropose("n1")
    \/ Rogue("n1")

SpecAuth == InitAuth /\ [][NextAuth]_vars

\* messages about heights node s has finalized: the header of a ledger
\* block sent again, another header for height 1, and well-signed votes of
\* either phase in the name of n2 and n3 for the ledger block or another
StaleMessages(s) ==
    {[msg_type |-> BLOCK_HEADER, data |-> s.ledger[h]] : h \in 1..s.current_height}
      \cup
    {[msg_type |-> BLOCK_HEADER, data |-> b] :
        b \in {c \in CraftedHeaders(s.chain_id) : c.height <= s.current_height}}
      \cup
    {[msg_type |-> phase,
      data |-> CraftedVote(s.chain_id, VoteData(h, x, phase, voter), "good")] :
        phase \in {PREVOTE, PRECOMMIT}, h \in 1..s.current_height,
        x \in {s.ledger[k].hash : k \in 1..s.current_height} \cup {BogusHash},
        voter \in {"n2", "n3"}}

\* an outsider hands node n a message about a finalized height
Stale(n) ==
    /\ used.inject < MaxForge
    /\ \E m \in StaleMessages(nodes[n]) : External(n, m.msg_type, m.data, "stale")

\* one registered validator of three, every step recorded, an outsider
\* forging the votes of the other two and re-sending old traffic
InitStale ==
    /\ nodes = InitNodes({"n1"}, DefaultChain, NodeIds)
    /\ message_queue = {}
    /\ config = [NoFaults EXCEPT !.trace = TRUE]
    /\ used = [inject |-> 0, propose |-> 0]
    /\ last = NoOp
    /\ collector = NoCollector
    /\ sim = NoSimulator
    /\ signer = NoSigner
    /\ finality = NoFinality

NextStale ==
    \/ AssignAndPropose("n1")
    \/ Forge("n1")
    \/ Stale("n1")

SpecStale == InitStale /\ [][NextStale]_vars

\* two registered validators out of a validator set of two or of three,
\* one proposal, every step recorded; beside them a VoteCollector for the
\* same validator set.  The collector and the nodes share nothing, so a
\* run exercises one or the other
InitMajority ==
    /\ \E validator_set \in {<<"n1", "n2">>, <<"n1", "n2", "n3">>} :
          /\ nodes = InitNodes({"n1", "n2"}, DefaultChain, Elements(validator_set))
          /\ collector = [c |-> VoteCollector(validator_set, DefaultChain),
                          calls |-> << >>]
    /\ message_queue = {}
    /\ config = [NoFaults EXCEPT !.trace = TRUE]
    /\ used = [inject |-> 0, propose |-> 0]
    /\ last = NoOp
    /\ sim = NoSimulator
    /\ signer = NoSigner
    /\ finality = NoFinality

NextMajority ==
    \/ \E e \in message_queue : Deliver(e)
    \/ collector.calls = << >> /\ \E n \in Proposers : AssignAndPropose(n)
    \/ used.propose = 0 /\ Collect

SpecMajority == InitMajority /\ [][NextMajority]_vars

\* three registered nodes on a transport followed in virtual time; the
\* delays, the rates and the cap are parameters of the run, and tests
\* call send, broadcast and step
NetConfigs ==
    {[min_delay |-> 1, max_delay |-> 1, drop_rate |-> 0, duplicate_rate |-> 0,
      rate_limit |-> 1, trace |-> FALSE],
     [min_delay |-> 1, max_delay |-> 5, drop_rate |-> 0, duplicate_rate |-> 0,
      rate_limit |-> 2, trace |-> FALSE],
     [min_delay |-> 1, max_delay |-> 1, drop_rate |-> 50, duplicate_rate |-> 50,
      rate_limit |-> 2, trace |-> FALSE],
     [min_delay |-> 1, max_delay |-> 5, drop_rate |-> 100, duplicate_rate |-> 0,
      rate_limit |-> 2, trace |-> FALSE]}

InitNet ==
    /\ nodes = InitNodes(NodeIds, DefaultChain, NodeIds)
    /\ message_queue = {}
    /\ config \in NetConfigs
    /\ used = [inject |-> 0, propose |-> 0]
    /\ last = NoOp
    /\ collector = NoCollector
    /\ sim = NetworkSimulator(NodeIds)
    /\ signer = NoSigner
    /\ finality = NoFinality

NextNet ==
    \/ NetSend("n1", "n2")
    \/ \E sender_id \in {"n1", "n2"} : NetBroadcast(sender_id)
    \/ \E duration \in StepDurations : Step(duration)

SpecNet == InitNet /\ [][NextNet]_vars

\* a Signer signs one payload under a domain, a chain id and a key, all
\* parameters of the run; the signature is then presented to a verification that
\* differs from the signing in at most one of the four
InitSigner ==
    /\ nodes = InitNodes({"n1"}, DefaultChain, NodeIds)
    /\ message_queue = {}
    /\ config = NoFaults
    /\ used = [inject |-> 0, propose |-> 0]
    /\ last = NoOp
    /\ collector = NoCollector
    /\ sim = NoSimulator
    /\ finality = NoFinality
    /\ \E domain \in Domains, chain_id \in ShortStrings, data \in Payloads,
          private_key \in SignerKeys :
          signer = [NoSigner EXCEPT !.stage = "drawn", !.domain = domain,
                                    !.chain_id = chain_id, !.data = data,
                                    !.private_key = private_key]

NextSigner ==
    \/ SignPayload
    \/ \E domain \in Domains :
          Present(domain, signer.chain_id, signer.data, signer.private_key)
    \/ \E chain_id \in ShortStrings :
          Present(signer.domain, chain_id, signer.data, signer.private_key)
    \/ \E data \in Payloads :
          Present(signer.domain, signer.chain_id, data, signer.private_key)
    \/ \E private_key \in SignerKeys :
          Present(signer.domain, signer.chain_id, signer.data, private_key)

SpecSigner == InitSigner /\ [][NextSigner]_vars

\* a FinalityManager for three validators; callers add blocks and try to
\* finalize either of two hashes at either of two heights with any list
\* of at most two votes
InitFinality ==
    /\ nodes = InitNodes({"n1"}, DefaultChain, NodeIds)
    /\ message_queue = {}
    /\ config = NoFaults
    /\ used = [inject |-> 0, propose |-> 0]
    /\ last = NoOp
    /\ collector = NoCollector
    /\ sim = NoSimulator
    /\ signer = NoSigner
    /\ finality = [fm |-> FinalityManager(<<"n1", "n2", "n3">>), call |-> NoCall]

NextFinality ==
    \/ AddPendingBlock
    \/ TryFinalize

SpecFinality == InitFinality /\ [][NextFinality]_vars

\* one registered validator of three, every step recorded in last; the
\* orchestrator proposes, peers send headers that validate or not, and an
\* outsider forges the votes of the other two validators
InitHeaders ==
    /\ nodes = InitNodes({"n1"}, DefaultChain, NodeIds)
    /\ message_queue = {}
    /\ config = [NoFaults EXCEPT !.trace = TRUE]
    /\ used = [inject |-> 0, propose |-> 0]
    /\ last = NoOp
    /\ collector = NoCollector
    /\ sim = NoSimulator
    /\ signer = NoSigner
    /\ finality = NoFinality

NextHeaders ==
    \/ AssignAndPropose("n1")
    \/ Forge("n1")
    \/ Header("n1")

SpecHeaders == InitHeaders /\ [][NextHeaders]_vars

\* the validator n1 and the observer n3 (is_validator = False) registered,
\* n2 absent; either may propose, votes of n2 and n3 reach both from
\* outside, one proposal, every step recorded
InitObserver ==
    /\ nodes = [n \in {"n1", "n3"} |-> Node(n, n = "n1", DefaultChain, NodeIds)]
    /\ message_queue = {}
    /\ config = [NoFaults EXCEPT !.trace = TRUE]
    /\ used = [inject |-> 0, propose |-> 0]
    /\ last = NoOp
    /\ collector = NoCollector
    /\ sim = NoSimulator
    /\ signer = NoSigner
    /\ finality = NoFinality

\* a peer hands node n a well-signed vote of n2 or n3 for a block n holds
HandVote(n) ==
    /\ used.inject < MaxVotesIn
    /\ \E m \in ForgedVotes(nodes[n]) : External(n, m.msg_type, m.data, "forge")

NextObserver ==
    \/ \E e \in message_queue : Deliver(e)
    \/ \E n \in {"n1", "n3"} : AssignAndPropose(n)
    \/ \E n \in {"n1", "n3"} : HandVote(n)

SpecObserver == InitObserver /\ [][NextObserver]_vars

RECURSIVE StateAfter(_, _, _)
\* the store of node s after the pending blocks of heights from..to are
\* applied in order
StateAfter(s, from, to) ==
    IF from > to THEN s.state
    ELSE ApplyLive(StateAfter(s, from, to - 1), s.pending_blocks[to].transactions).data

\* the highest height up to which node s holds a block for every height
\* above current_height
HeldUpTo(s) ==
    CHOOSE k \in s.current_height..(s.current_height + MaxChain) :
        /\ \A h \in (s.current_height + 1)..k : h \in DOMAIN s.pending_blocks
        /\ (k + 1) \notin DOMAIN s.pending_blocks

\* the headers a proposer ahead of node s sends it: the block that extends
\* the blocks s holds, and the same block with the state_hash of the store
\* before its transaction
ChainedHeaders(s) ==
    LET k == HeldUpTo(s)
        parent == IF k = s.current_height THEN TipHash(s) ELSE s.pending_blocks[k].hash
        before == StateAfter(s, s.current_height + 1, k)
        tx == IF k % 2 = 0 THEN TxAlice ELSE TxBob
    IN  {Block(k + 1, parent, <<tx>>, Commitment(StateApply(before, tx).data), None),
         Block(k + 1, parent, <<tx>>, Commitment(before), None)}

ChainHeader(n) ==
    /\ used.inject < MaxCascade
    /\ HeldUpTo(nodes[n]) < nodes[n].current_height + MaxChain
    /\ \E b \in ChainedHeaders(nodes[n]) : External(n, BLOCK_HEADER, b, "header")

\* a peer hands node n the precommit of n2 or n3 for a block n holds
HandPrecommit(n) ==
    /\ used.inject < MaxCascade
    /\ \E m \in ForgedVotes(nodes[n]) :
          /\ m.msg_type = PRECOMMIT
          /\ External(n, m.msg_type, m.data, "forge")

\* one registered validator of three, behind a chain of blocks whose
\* headers and precommits reach it in any order, every step recorded
InitCascade ==
    /\ nodes = InitNodes({"n1"}, DefaultChain, NodeIds)
    /\ message_queue = {}
    /\ config = [NoFaults EXCEPT !.trace = TRUE]
    /\ used = [inject |-> 0, propose |-> 0]
    /\ last = NoOp
    /\ collector = NoCollector
    /\ sim = NoSimulator
    /\ signer = NoSigner
    /\ finality = NoFinality

NextCascade == ChainHeader("n1") \/ HandPrecommit("n1")

SpecCascade == InitCascade /\ [][NextCascade]_vars

\* three honest validators, a transport that delays hops at will and
\* drops everything n2 sends, two proposals, every step recorded
InitSelf ==
    /\ nodes = InitNodes(NodeIds, DefaultChain, NodeIds)
    /\ message_queue = {}
    /\ config = [NoFaults EXCEPT !.drop_rate = 1,
                                 !.cut = {<<"n2", "n1">>, <<"n2", "n3">>},
                                 !.trace = TRUE, !.proposals = MaxProposals]
    /\ used = [inject |-> 0, propose |-> 0]
    /\ last = NoOp
    /\ collector = NoCollector
    /\ sim = NoSimulator
    /\ signer = NoSigner
    /\ finality = NoFinality

NextSelf ==
    \/ \E e \in message_queue : Deliver(e)
    \/ \E n \in Proposers : AssignAndPropose(n)

SpecSelf == InitSelf /\ [][NextSelf]_vars

\* the heights a peer may name in a REQUEST_BLOCK message
RequestedHeights == (0 - 1)..(MaxHeight + 1)

\* a peer asks node n for the block of some height, naming a registered
\* node as requester
Request(n) ==
    /\ used.inject < MaxInject
    /\ \E k \in RequestedHeights : \E r \in Registered \ {n} :
          External(n, REQUEST_BLOCK, [height |-> k, requester |-> r], "request")

\* the two validators n1 and n2, two proposals, a peer sending block
\* requests to either, every step recorded
InitRequest ==
    /\ nodes = InitNodes({"n1", "n2"}, DefaultChain, {"n1", "n2"})
    /\ message_queue = {}
    /\ config = [NoFaults EXCEPT !.trace = TRUE, !.proposals = MaxProposals]
    /\ used = [inject |-> 0, propose |-> 0]
    /\ last = NoOp
    /\ collector = NoCollector
    /\ sim = NoSimulator
    /\ signer = NoSigner
    /\ finality = NoFinality

NextRequest ==
    \/ \E e \in message_queue : Deliver(e)
    \/ \E n \in Proposers : AssignAndPropose(n)
    \/ \E n \in Registered : Request(n)

SpecRequest == InitRequest /\ [][NextRequest]_vars

\* the orchestrator hands n a batch and calls propose_block on a node
\* whose network is the timed simulator (test_e2e.py:46-49)
NetPropose(n) ==
    /\ used.propose < config.proposals
    /\ nodes[n].current_height < MaxHeight
    /\ \E due \in BOOLEAN :
          LET r == ProposeBlock([nodes[n] EXCEPT !.pending_transactions =
                                     TxBatch(n, nodes[n].current_height + 1)], due)
          IN  /\ nodes' = [nodes EXCEPT ![n] = [r EXCEPT !.out = << >>]]
              /\ \E s1 \in TransmitAll([sim EXCEPT !.raised = FALSE], n, r.out) :
                    sim' = s1
    /\ used' = [used EXCEPT !.propose = @ + 1]
    /\ UNCHANGED <<message_queue, config, last, collector, signer, finality>>

\* two validators on the timed simulator (test_e2e.py:12-43) with the
\* rate limits of test_network.py:102-131, one proposal
InitLimited ==
    /\ nodes = InitNodes({"n1", "n2"}, DefaultChain, {"n1", "n2"})
    /\ message_queue = {}
    /\ \E rate_limit \in {1, 2, 5} : \E max_delay \in {1, 5} :
          config = [min_delay |-> 1, max_delay |-> max_delay, drop_rate |-> 0,
                    duplicate_rate |-> 0, rate_limit |-> rate_limit,
                    trace |-> FALSE, proposals |-> 1]
    /\ used = [inject |-> 0, propose |-> 0]
    /\ last = NoOp
    /\ collector = NoCollector
    /\ sim = NetworkSimulator({"n1", "n2"})
    /\ signer = NoSigner
    /\ finality = NoFinality

NextLimited ==
    \/ \E n \in Proposers : NetPropose(n)
    \/ \E duration \in StepDurations : Step(duration)

SpecLimited == InitLimited /\ [][NextLimited]_vars

\* the set-up of the rate-limit test (test_network.py:102-131): two
\* nodes, no drops or duplicates, a limit the sends of a run can exceed
InitReject ==
    /\ nodes = InitNodes({"n1", "n2"}, DefaultChain, {"n1", "n2"})
    /\ message_queue = {}
    /\ \E rate_limit \in {1, 2} : \E max_delay \in {1, 5} :
          config = [min_delay |-> 1, max_delay |-> max_delay, drop_rate |-> 0,
                    duplicate_rate |-> 0, rate_limit |-> rate_limit,
                    trace |-> FALSE]
    /\ used = [inject |-> 0, propose |-> 0]
    /\ last = NoOp
    /\ collector = NoCollector
    /\ sim = NetworkSimulator({"n1", "n2"})
    /\ signer = NoSigner
    /\ finality = NoFinality

NextReject ==
    \/ NetSend("n1", "n2")
    \/ NetBroadcast("n2")
    \/ \E duration \in StepDurations : Step(duration)

SpecReject == InitReject /\ [][NextReject]_vars

(***************************************************************************)
(* Properties                                                              *)
(***************************************************************************)
\* every <<height, block_hash, voter>> a vote book records
VoteTriples(book) ==
    UNION {UNION {{<<h, x, v>> : v \in book[h][x]} : x \in DOMAIN book[h]} :
             h \in DOMAIN book}

\* every <<height, block_hash>> a vote book has an entry for
VoteKeys(book) ==
    UNION {{<<h, x>> : x \in DOMAIN book[h]} : h \in DOMAIN book}

\* the vote verifies with the key it carries, in the VOTE domain, for
\* chain_id, over exactly the payload it carries
VoteSigned(vote, chain_id) ==
    Verify(vote.public_key, vote.signature,
           [domain |-> "VOTE", chain |-> chain_id, data |-> vote.data])

IsVote(m) == m.msg_type \in {PREVOTE, PRECOMMIT}

\* message m is a vote for triple t = <<height, block_hash, voter>> that
\* verifies for chain_id
VoteFor(m, t, chain_id) ==
    /\ IsVote(m)
    /\ <<m.data.data.height, m.data.data.block_hash, m.data.data.voter>> = t
    /\ VoteSigned(m.data, chain_id)

\* what receive_message leaves of node n when the dispatched handler does
\* nothing: the message is marked seen and _try_sync has run
AfterSyncOnly(n, message) ==
    {TrySync([nodes[n] EXCEPT !.seen_messages = @ \cup {message.msg_id}], due) :
        due \in BOOLEAN} \cup {nodes[n]}

\* C1: safety per height - all nodes whose ledger has an entry at height h
\* hold the same block hash there
SafetyPerHeight ==
    \A a, b \in Registered : \A h \in 1..(MaxHeight + 1) :
        (Len(nodes[a].ledger) >= h /\ Len(nodes[b].ledger) >= h)
            => nodes[a].ledger[h].hash = nodes[b].ledger[h].hash

\* C2: state agreement - two nodes with the same current_height have the
\* same state commitment
StateAgreement ==
    \A a, b \in Registered :
        nodes[a].current_height = nodes[b].current_height
            => Commitment(nodes[a].state) = Commitment(nodes[b].state)

\* C3: ledger chaining - the first block's parent is "genesis", every other
\* block's parent is the hash of the block before it, and the i-th block
\* of the ledger (counting from 1) has height i
LedgerChaining ==
    \A n \in Registered : \A i \in 1..Len(nodes[n].ledger) :
        /\ nodes[n].ledger[i].height = i
        /\ nodes[n].ledger[i].parent_hash =
              IF i = 1 THEN Genesis ELSE nodes[n].ledger[i - 1].hash

\* C4: current_height equals the number of blocks in the ledger, also
\* after a finalize attempt that aborted part-way
HeightIsLedgerLength ==
    \A n \in Registered : nodes[n].current_height = Len(nodes[n].ledger)

\* C4 witness: n1 finalized its own block of one transaction (alice) and a
\* later finalize of a forged block applied bob's transaction, then aborted
FinalizeAborted ==
    /\ Len(nodes["n1"].ledger) = 1
    /\ Len(nodes["n1"].ledger[1].transactions) = 1
    /\ <<TxBob.key, TxBob.value>> \in nodes["n1"].state
    /\ 2 \in DOMAIN nodes["n1"].pending_blocks

\* C5: in a step in which a node's ledger grows, the node's state
\* commitment afterwards equals the state_hash of the block it appended last
FinalizedStateHash ==
    [][\A n \in Registered :
          Len(nodes'[n].ledger) > Len(nodes[n].ledger)
             => Commitment(nodes'[n].state) =
                   nodes'[n].ledger[Len(nodes'[n].ledger)].state_hash]_vars

\* C6: without drops, duplicates or rate limiting, once the one proposal
\* was made and every scheduled message has been delivered, every node is
\* at height 1
LiveQuiescent ==
    (used.propose = 1 /\ message_queue = {})
        => \A n \in Registered : nodes[n].current_height = 1

TxAcceptable(tx, chain_id) ==
    /\ tx.signature # None
    /\ tx.public_key # None
    /\ tx.key[1] = tx.sender
    /\ Verify(tx.public_key, tx.signature,
              [domain |-> "TX", chain |-> chain_id,
               data |-> [sender |-> tx.sender, key |-> tx.key, value |-> tx.value]])

\* C8: a Transaction message dispatched to a node appends its transaction
\* to pending_transactions if and only if the transaction is acceptable
\* for the node's chain; otherwise pending_transactions is unchanged
TransactionGate ==
    [][\A n \in Registered :
          (/\ last'.node = n
           /\ last'.op \in {"deliver", "inject"}
           /\ last'.msg.msg_type = TRANSACTION
           /\ last'.msg.msg_id \notin nodes[n].seen_messages)
             => nodes'[n].pending_transactions =
                   IF TxAcceptable(last'.msg.data, nodes[n].chain_id)
                   THEN Append(nodes[n].pending_transactions, last'.msg.data)
                   ELSE nodes[n].pending_transactions]_vars

\* C8 witness: a transaction with a valid signature whose key is in another
\* sender's namespace was handed to n1, which holds an accepted one only
UnauthorizedTxRejected ==
    /\ last.op = "inject" /\ last.node = "n1"
    /\ last.msg.msg_type = TRANSACTION
    /\ last.msg.data.key[1] # last.msg.data.sender
    /\ verify_transaction(nodes["n1"].chain_id, last.msg.data.public_key,
                          TxToDict(last.msg.data), last.msg.data.signature)
    /\ Len(nodes["n1"].pending_transactions) = 1
    /\ TxAcceptable(nodes["n1"].pending_transactions[1], nodes["n1"].chain_id)

\* the header signature verifies with some key in the HEADER domain for
\* chain_id over {height, parent_hash, state_hash}
HeaderSigned(block, chain_id) ==
    /\ Len(block.proposer_signature) = 3
    /\ Verify(PublicKey(block.proposer_signature[2]), block.proposer_signature,
              [domain |-> "HEADER", chain |-> chain_id,
               data |-> [height |-> block.height,
                         parent_hash |-> block.parent_hash,
                         state_hash |-> block.state_hash]])

\* C9: every block in a node's pending_blocks carries a proposer signature
\* that verifies in the HEADER domain for the node's chain
HeaderSignatureGate ==
    \A n \in Registered : \A h \in DOMAIN nodes[n].pending_blocks :
        HeaderSigned(nodes[n].pending_blocks[h], nodes[n].chain_id)

PhaseVoteFor(m, t, chain_id, phase) ==
    /\ VoteFor(m, t, chain_id)
    /\ m.data.data.phase = phase

\* C11: votes are bound to their phase - a voter enters precommits[h][X]
\* only through a signed payload with phase "precommit" for (h, X), and
\* prevotes[h][X] only through one with phase "prevote", whatever the type
\* of the message that carries it
PhaseBinding ==
    [][\A n \in Registered :
          /\ \A t \in VoteTriples(nodes'[n].precommits)
                        \ VoteTriples(nodes[n].precommits) :
                \/ PhaseVoteFor(last'.msg, t, nodes[n].chain_id, "precommit")
                \/ \E i \in 1..Len(last'.out) :
                      PhaseVoteFor(last'.out[i].msg, t, nodes[n].chain_id, "precommit")
          /\ \A t \in VoteTriples(nodes'[n].prevotes)
                        \ VoteTriples(nodes[n].prevotes) :
                \/ PhaseVoteFor(last'.msg, t, nodes[n].chain_id, "prevote")
                \/ \E i \in 1..Len(last'.out) :
                      PhaseVoteFor(last'.out[i].msg, t, nodes[n].chain_id, "prevote")]_vars

\* C12: de-duplication - a message whose msg_id is already in the node's
\* seen set leaves the whole node unchanged and makes it send nothing; in
\* particular a transaction message handed over twice is appended once
Deduplication ==
    [][\A n \in Registered :
          (/\ last'.node = n
           /\ last'.op \in {"deliver", "inject", "again"}
           /\ last'.msg.msg_id \in nodes[n].seen_messages)
             => /\ nodes'[n] = nodes[n]
                /\ last'.out = << >>]_vars

\* C12 witness: an acceptable transaction message was handed to n1 twice
\* and n1 holds it once
SameTxTwice ==
    /\ last.op = "again" /\ last.node = "n1"
    /\ last.msg.msg_type = TRANSACTION
    /\ TxAcceptable(last.msg.data, nodes["n1"].chain_id)
    /\ last.msg.msg_id \in nodes["n1"].seen_messages
    /\ nodes["n1"].pending_transactions = <<last.msg.data>>

\* the transaction's key is outside its sender's namespace
Unauthorized(tx) == tx.key[1] # tx.sender

\* some transaction of the list is unauthorized
HasUnauthorized(transactions) ==
    \E i \in 1..Len(transactions) : Unauthorized(transactions[i])

\* C13: authorization - a validly signed transaction whose key is outside
\* its sender's namespace never reaches a store: no store holds its write,
\* apply_transaction rejects it leaving the store as it was, every block
\* that contains it fails validation and none is in a ledger, and a
\* Transaction message carrying it leaves pending_transactions unchanged
Authorization ==
    /\ [](\A n \in Registered :
            /\ Unauthorized(TxRogue)
            /\ verify_transaction(nodes[n].chain_id, TxRogue.public_key,
                                  TxToDict(TxRogue), TxRogue.signature)
            /\ <<TxRogue.key, TxRogue.value>> \notin nodes[n].state
            /\ StateApply(nodes[n].state, TxRogue) =
                  [ok |-> FALSE, data |-> nodes[n].state]
            /\ \A h \in DOMAIN nodes[n].pending_blocks :
                  HasUnauthorized(nodes[n].pending_blocks[h].transactions)
                     => ~ValidateBlock(nodes[n], nodes[n].pending_blocks[h])
            /\ \A i \in 1..Len(nodes[n].ledger) :
                  ~HasUnauthorized(nodes[n].ledger[i].transactions))
    /\ [][\A n \in Registered :
            (/\ last'.node = n
             /\ last'.op \in {"deliver", "inject", "forge"}
             /\ last'.msg.msg_type = TRANSACTION
             /\ Unauthorized(last'.msg.data))
               => nodes'[n].pending_transactions = nodes[n].pending_transactions]_vars

\* C13 witness: n1 holds, for its next height, a block <<TxBob, TxRogue>>
\* with a precommit majority; the finalize attempt wrote bob's entry and
\* stopped at TxRogue
RogueBlockStopped ==
    LET s == nodes["n1"] IN
    /\ s.current_height + 1 \in DOMAIN s.pending_blocks
    /\ s.pending_blocks[s.current_height + 1].transactions = <<TxBob, TxRogue>>
    /\ Majority(VotersOf(s.precommits, s.current_height + 1,
                         s.pending_blocks[s.current_height + 1].hash), s.validators)
    /\ <<TxBob.key, TxBob.value>> \in s.state
    /\ <<TxRogue.key, TxRogue.value>> \notin s.state

\* the (height, block_hash) a vote message is for
VoteKeyOf(m) == <<m.data.data.height, m.data.data.block_hash>>

\* the record of the votes node s has broadcast, by message type
SentBook(s, msg_type) ==
    IF msg_type = PREVOTE THEN s.sent_prevotes ELSE s.sent_precommits

\* C14: a node broadcasts at most one prevote and at most one precommit
\* per (height, block_hash) over a run - the records of sent votes never
\* shrink, every vote a step broadcasts is for a pair not yet in the
\* record before the step and in it after, and no step broadcasts two
\* votes of one type for one pair
VoteOnce ==
    [][\A n \in Registered :
          /\ nodes[n].sent_prevotes \subseteq nodes'[n].sent_prevotes
          /\ nodes[n].sent_precommits \subseteq nodes'[n].sent_precommits
          /\ last'.node = n =>
                \A i \in 1..Len(last'.out) :
                    IsVote(last'.out[i].msg) =>
                        LET m == last'.out[i].msg IN
                        /\ VoteKeyOf(m) \notin SentBook(nodes[n], m.msg_type)
                        /\ VoteKeyOf(m) \in SentBook(nodes'[n], m.msg_type)
                        /\ \A j \in 1..Len(last'.out) :
                              (/\ j # i
                               /\ last'.out[j].msg.msg_type = m.msg_type
                               /\ VoteKeyOf(last'.out[j].msg) = VoteKeyOf(m))
                                 => FALSE]_vars

\* C14 witness: n1 precommitted a block on the prevotes of n1 and n2, and
\* a further prevote for it, of n3, reached the majority test again and
\* made n1 send nothing
PrecommitNotRepeated ==
    LET s == nodes["n1"] IN
    /\ last.op = "inject" /\ last.node = "n1"
    /\ last.msg.msg_type = PREVOTE
    /\ last.msg.data.data.voter = "n3"
    /\ VoteKeyOf(last.msg) \in s.sent_precommits
    /\ last.msg.data.data.height \in DOMAIN s.prevotes
    /\ VotersOf(s.prevotes, last.msg.data.data.height,
                last.msg.data.data.block_hash) = {"n1", "n2", "n3"}
    /\ last.out = << >>

\* the height a header or vote message is about
HeightOf(m) ==
    IF m.msg_type = BLOCK_HEADER THEN m.data.height ELSE m.data.data.height

\* the parts of a node that finalization fixes
Finalized(s) == <<s.ledger, s.state, s.current_height, s.prevotes, s.precommits>>

AcceptedVoters(calls, phase, height, block_hash) ==
    {calls[i].vote.voter_id :
        i \in {k \in 1..Len(calls) : /\ calls[k].ok
                                     /\ calls[k].vote.phase = phase
                                     /\ calls[k].vote.height = height
                                     /\ calls[k].vote.block_hash = block_hash}}

\* strictly more than half of n
MoreThanHalf(count, n) == 2 * count > n

\* the voters node n has on record for (height, block_hash) once the step
\* has handled its message: those in the book before, and the voters of
\* the well-signed validators' votes of that message type the step handed
\* over or the node sent itself
RecordedInStep(n, book, msg_type, height, block_hash) ==
    LET counts(m) == /\ m.msg_type = msg_type
                     /\ VoteKeyOf(m) = <<height, block_hash>>
                     /\ VoteSigned(m.data, nodes[n].chain_id)
                     /\ m.data.data.voter \in nodes[n].validators
    IN  VotersOf(book, height, block_hash)
          \cup (IF last'.node = n /\ counts(last'.msg)
                THEN {last'.msg.data.data.voter} ELSE {})
          \cup {last'.out[i].msg.data.data.voter :
                  i \in {k \in 1..Len(last'.out) :
                           last'.node = n /\ counts(last'.out[k].msg)}}

\* C16: strict majority - a collector reports a prevote (precommit)
\* majority for (height, hash) exactly when the distinct validators whose
\* votes it accepted for it number more than n/2; a node has broadcast its
\* precommit for an entry of its prevote book exactly when that entry holds
\* more than n/2 voters; and a node appends a block only on more than n/2
\* recorded precommit voters for it
StrictMajority ==
    /\ [](/\ has_prevote_majority(collector.c, 1, BogusHash)
               <=> MoreThanHalf(Cardinality(AcceptedVoters(collector.calls, "prevote",
                                                            1, BogusHash)),
                                Cardinality(collector.c.validators))
          /\ has_precommit_majority(collector.c, 1, BogusHash)
               <=> MoreThanHalf(Cardinality(AcceptedVoters(collector.calls, "precommit",
                                                            1, BogusHash)),
                                Cardinality(collector.c.validators))
          /\ \A n \in Registered : \A k \in VoteKeys(nodes[n].prevotes) :
                k \in nodes[n].sent_precommits
                   <=> MoreThanHalf(Cardinality(nodes[n].prevotes[k[1]][k[2]]),
                                    Cardinality(nodes[n].validators)))
    /\ [][\A n \in Registered :
            \A h \in (Len(nodes[n].ledger) + 1)..Len(nodes'[n].ledger) :
               MoreThanHalf(
                  Cardinality(RecordedInStep(n, nodes[n].precommits, PRECOMMIT, h,
                                             nodes'[n].ledger[h].hash)),
                  Cardinality(nodes[n].validators))]_vars

\* C16 witness: a collector for two validators accepted the same prevote
\* of n1 twice and reports no majority: one voter is exactly n/2
HalfIsNoMajority ==
    /\ collector.c.total_validators = 2
    /\ Len(collector.calls) >= 2
    /\ collector.calls[1].ok /\ collector.calls[2].ok
    /\ collector.calls[1].vote = collector.calls[2].vote
    /\ collector.calls[1].vote.phase = "prevote"
    /\ collector.c.prevotes[<<1, BogusHash>>] = {collector.calls[1].vote.voter_id}
    /\ ~has_prevote_majority(collector.c, 1, BogusHash)

\* the positions of the log at which sender_id's calls produced a send
\* event in the second that starts at time t
SendsWithin(sender_id, t) ==
    {i \in 1..Len(sim.events) :
        /\ sim.events[i].event = "send"
        /\ sim.events[i].node = sender_id
        /\ sim.events[i].time >= t
        /\ sim.events[i].time < t + Second}

\* C17: rate limit cap - for every sender and every interval of one
\* simulated second, at most rate_limit of the sender's send and broadcast
\* calls pass the rate limiter (every interval that holds the most send
\* events starts at one of them)
RateLimitCap ==
    \A sender_id \in DOMAIN sim.node_send_counts :
        \A i \in 1..Len(sim.events) :
            (sim.events[i].event = "send" /\ sim.events[i].node = sender_id)
                => Cardinality(SendsWithin(sender_id, sim.events[i].time))
                       <= config.rate_limit

\* the destinations of the call that logged the send event ev
DestinationsOf(ev) ==
    IF ev.recipient = "*" THEN DOMAIN nodes \ {ev.node} ELSE {ev.recipient}

\* the log holds a receive event of node_id for the message msg_id
Received(node_id, msg_id) ==
    \E j \in 1..Len(sim.events) :
        /\ sim.events[j].event = "receive"
        /\ sim.events[j].node = node_id
        /\ sim.events[j].msg_id = msg_id

\* C18: bounded delivery without loss - with drop_rate = 0, once a call
\* has left the clock at t + max_delay or later, every destination of a
\* send or broadcast that passed the rate limiter at time t has received
\* the message, and no node receives a message it sent itself
BoundedDelivery ==
    config.drop_rate = 0 =>
        \A i \in 1..Len(sim.events) :
            LET ev == sim.events[i] IN
            /\ (ev.event = "send" /\ sim.current_time >= ev.time + config.max_delay)
                  => \A r \in DestinationsOf(ev) : Received(r, ev.msg_id)
            /\ ev.event = "receive" => ev.node # ev.msg_id[1]

\* how many events of the kinds event_types the log holds for the message
\* msg_id and the node node_id
EventCount(event_types, msg_id, node_id) ==
    Cardinality({j \in 1..Len(sim.events) :
                    /\ sim.events[j].event \in event_types
                    /\ sim.events[j].msg_id = msg_id
                    /\ sim.events[j].node = node_id})

\* C19: transport accounting - for every message and recipient the log
\* holds no more receive events than delay plus duplicate events; a hop
\* for which a drop event was logged (every message is handed to the
\* transport by one call only) is neither scheduled nor delivered; and
\* with drop_rate = 1 nothing is received
TransportAccounting ==
    /\ \A i \in 1..Len(sim.events) :
           LET ev == sim.events[i] IN
           /\ ev.event = "receive"
                 => EventCount({"receive"}, ev.msg_id, ev.node)
                       <= EventCount({"delay", "duplicate"}, ev.msg_id, ev.node)
           /\ ev.event = "drop"
                 => EventCount({"delay", "duplicate", "receive"}, ev.msg_id, ev.node) = 0
    /\ config.drop_rate >= 100
          => \A i \in 1..Len(sim.events) : sim.events[i].event # "receive"

\* the verification (domain, chain_id, data, private_key's public key) is the
\* one the signer's signature was made under
SameAsSigned(domain, chain_id, data, private_key) ==
    /\ domain = signer.domain
    /\ chain_id = signer.chain_id
    /\ data = signer.data
    /\ private_key = signer.private_key

\* C20: signature binding - a signature made under a domain, a chain id,
\* a payload and a private key verifies under a domain, a chain id, a
\* payload and a public key exactly when the four are the same (the key
\* being the public key of the private key): for every verification of the
\* universe once the signature is made, and for the verification that was made
SignatureBinding ==
    /\ signer.stage = "signed"
          => \A domain \in Domains, chain_id \in ShortStrings, data \in Payloads,
                private_key \in SignerKeys :
                verify(domain, chain_id, PublicKey(private_key), data, signer.signature)
                   <=> SameAsSigned(domain, chain_id, data, private_key)
    /\ signer.stage = "presented"
          => (signer.ok <=> SameAsSigned(signer.presented.domain,
                                         signer.presented.chain_id,
                                         signer.presented.data,
                                         signer.presented.private_key))

\* C20 witness: a signature made as a VOTE was presented as a HEADER on the
\* same chain, payload and key, and failed (test_crypto.py:35-46)
VoteSignatureFailsAsHeader ==
    /\ signer.stage = "presented"
    /\ signer.domain = DOMAIN_VOTE
    /\ signer.presented = [domain |-> DOMAIN_HEADER, chain_id |-> signer.chain_id,
                           data |-> signer.data, private_key |-> signer.private_key]
    /\ signer.data.kind = "dict"
    /\ ~signer.ok

\* C21: one block per height - once a height is in finalized_blocks its
\* entry never changes and every later try_finalize for that height
\* returns false, whatever the hash and the votes; so at most one hash is
\* finalized per height and check_safety() is true in every state
FinalityOnce ==
    /\ [][\A h \in DOMAIN finality.fm.finalized_blocks :
             /\ h \in DOMAIN finality'.fm.finalized_blocks
             /\ finality'.fm.finalized_blocks[h] = finality.fm.finalized_blocks[h]
             /\ (finality'.call.op = "try_finalize" /\ finality'.call.height = h)
                   => ~finality'.call.ok]_vars
    /\ [](/\ check_safety(finality.fm)
          /\ \A h \in FinalityHeights :
                \A x \in FinalityHashes, y \in FinalityHashes :
                   (is_finalized(finality.fm, h, x) /\ is_finalized(finality.fm, h, y))
                      => x = y)

\* C21 witness: with one hash finalized at height 1, try_finalize for the
\* other hash at height 1 with two valid validator votes returned false
\* (test_consensus.py:112-129)
SecondBlockRefused ==
    /\ finality.call.op = "try_finalize"
    /\ finality.call.height = 1
    /\ ~finality.call.ok
    /\ is_finalized(finality.fm, 1, BogusHash)
    /\ finality.call.block_hash = OtherHash
    /\ Len(finality.call.votes) = 2
    /\ \A i \in 1..2 : /\ VoteVerify(finality.call.votes[i], DefaultChain)
                       /\ finality.call.votes[i].voter_id \in finality.fm.validators

\* the node n as _try_sync leaves it in the call that hands it message,
\* which it has not seen before
SyncResults(n, message) ==
    {TrySync([nodes[n] EXCEPT !.seen_messages = @ \cup {message.msg_id}], due) :
        due \in BOOLEAN}

\* the step handed node n a header it had not seen, and s is the node as
\* _try_sync left it when _handle_block_header started
HeaderStepFrom(n, s) ==
    /\ last'.node = n
    /\ last'.op \in {"deliver", "inject", "forge", "header"}
    /\ last'.msg.msg_type = BLOCK_HEADER
    /\ last'.msg.msg_id \notin nodes[n].seen_messages
    /\ s \in SyncResults(n, last'.msg)
    /\ nodes'[n] = [HandleBlockHeader(s, last'.msg) EXCEPT !.out = << >>]
    /\ last'.out = HandleBlockHeader(s, last'.msg).out

PrecommitVotersInStep(n, height, block_hash) ==
    VotersOf(nodes[n].precommits, height, block_hash)
      \cup {n}
      \cup (IF last'.msg.msg_type = PRECOMMIT
            THEN {last'.msg.data.data.voter} ELSE {})

\* C23: finalize preconditions - in a step in which a node's ledger grows
\* by one block B, B is for current_height + 1, B validates against the
\* node's ledger and state at that moment (parent link, every transaction
\* verifies, replay yields state_hash), and more than half of the
\* validators have precommitted B.hash
FinalizePreconditions ==
    [][\A n \in Registered :
          Len(nodes'[n].ledger) = Len(nodes[n].ledger) + 1
             => LET B == nodes'[n].ledger[Len(nodes'[n].ledger)] IN
                /\ B.height = nodes[n].current_height + 1
                /\ ValidateBlock(nodes[n], B)
                /\ Majority(PrecommitVotersInStep(n, B.height, B.hash)
                              \cap nodes[n].validators,
                            nodes[n].validators)]_vars

\* C27: a node's state store changes only in a step in which its ledger
\* grows; validation, vote handling, discarded messages, proposals and a
\* finalize attempt that aborts leave the store, the ledger and the height
\* as they were
StateChangesWithLedger ==
    [][\A n \in Registered :
          Len(nodes'[n].ledger) = Len(nodes[n].ledger)
             => /\ nodes'[n].state = nodes[n].state
                /\ nodes'[n].ledger = nodes[n].ledger
                /\ nodes'[n].current_height = nodes[n].current_height]_vars

\* node s holds, for the next height, a block that validates and whose
\* hash has a precommit majority in s's own book
ReadyToFinalize(s) ==
    LET h == s.current_height + 1 IN
    /\ h \in DOMAIN s.pending_blocks
    /\ ValidateBlock(s, s.pending_blocks[h])
    /\ Majority(VotersOf(s.precommits, h, s.pending_blocks[h].hash), s.validators)

\* C24: late header still finalizes - a node that recorded the precommit
\* majority for a block before its header finalizes when the header
\* arrives, so with nothing left to deliver no node holds a valid block
\* for the next height with a precommit majority in its own book
LateHeaderFinalizes ==
    message_queue = {} => \A n \in Registered : ~ReadyToFinalize(nodes[n])

\* the i-th message the step's handler broadcast is a vote of type phase
\* for (height, block_hash)
SentVote(i, phase, height, block_hash) ==
    /\ last'.out[i].msg.msg_type = phase
    /\ last'.out[i].msg.data.data.height = height
    /\ last'.out[i].msg.data.data.block_hash = block_hash

\* node n's prevote book for (height, block_hash) when the i-th message of
\* the step is broadcast: what the book held before the call, the voter of
\* an arriving prevote, and n itself if it broadcast its prevote earlier in
\* the call (self-delivery)
PrevotersWhenSent(n, i, height, block_hash) ==
    VotersOf(nodes[n].prevotes, height, block_hash)
      \cup (IF /\ last'.msg.msg_type = PREVOTE
               /\ last'.msg.data.data.height = height
               /\ last'.msg.data.data.block_hash = block_hash
            THEN {last'.msg.data.data.voter} \cap nodes[n].validators ELSE {})
      \cup (IF \E j \in 1..(i - 1) : SentVote(j, PREVOTE, height, block_hash)
            THEN {n} ELSE {})

\* C25: precommit follows prevote majority - a node broadcasts a precommit
\* for (h, X) only if it is a validator and its prevote book then holds
\* more than half of the validators for (h, X); a node that is not a
\* validator never broadcasts a vote
PrecommitFollowsPrevotes ==
    [][\A n \in Registered : last'.node = n =>
          \A i \in 1..Len(last'.out) :
             LET m == last'.out[i].msg IN
             /\ m.msg_type = PRECOMMIT
                  => /\ nodes[n].is_validator
                     /\ Majority(PrevotersWhenSent(n, i, m.data.data.height,
                                                   m.data.data.block_hash),
                                 nodes[n].validators)
             /\ m.msg_type \in {PREVOTE, PRECOMMIT} => nodes[n].is_validator]_vars

\* C25 witness: n1 broadcast its precommit in the call that received the
\* prevote completing the majority, and the observer n3, holding a block and
\* a prevote majority for it, has sent nothing
PrecommitAfterMajority ==
    /\ last.node = "n1" /\ last.msg.msg_type = PREVOTE
    /\ \E i \in 1..Len(last.out) : last.out[i].msg.msg_type = PRECOMMIT
    /\ \E h \in DOMAIN nodes["n3"].pending_blocks :
          /\ Majority(VotersOf(nodes["n3"].prevotes, h, nodes["n3"].pending_blocks[h].hash),
                      nodes["n3"].validators)
          /\ nodes["n3"].sent_prevotes = {} /\ nodes["n3"].sent_precommits = {}

\* C26: catch-up cascade - a step in which a node's ledger grew does not
\* leave the node holding, for the next height, a valid block with a
\* precommit majority that it already held when the step began: the
\* handler that finalized height h went on to h + 1, h + 2, ... until the
\* block was missing, invalid or short of precommits
CatchUpCascade ==
    [][\A n \in Registered :
          (/\ Len(nodes'[n].ledger) > Len(nodes[n].ledger)
           /\ ReadyToFinalize(nodes'[n]))
             => LET h == nodes'[n].current_height + 1 IN
                \/ h \notin DOMAIN nodes[n].pending_blocks
                \/ nodes[n].pending_blocks[h] # nodes'[n].pending_blocks[h]]_vars

\* C26 witness: one precommit made n1 finalize heights 1, 2 and 3 in a
\* single call
ThreeBlocksInOneCall ==
    /\ last.op = "forge" /\ last.msg.msg_type = PRECOMMIT
    /\ last.msg.data.data.height = 1
    /\ nodes["n1"].current_height = 3
    /\ Len(nodes["n1"].ledger) = 3

\* C28: self-delivery - when the call that just returned made validator n
\* broadcast a prevote or precommit for (h, X), n is in its own book of
\* that phase for (h, X) unless height h is finalized; and when the call
\* was propose_block and broadcast block B, n holds B as its pending block
\* and its own prevote for B
SelfDelivery ==
    [][\A n \in Registered : last'.node = n =>
          \A i \in 1..Len(last'.out) :
             LET m == last'.out[i].msg IN
             /\ m.msg_type = PREVOTE
                  => \/ n \in VotersOf(nodes'[n].prevotes, m.data.data.height,
                                       m.data.data.block_hash)
                     \/ nodes'[n].current_height >= m.data.data.height
             /\ m.msg_type = PRECOMMIT
                  => \/ n \in VotersOf(nodes'[n].precommits, m.data.data.height,
                                       m.data.data.block_hash)
                     \/ nodes'[n].current_height >= m.data.data.height
             /\ (m.msg_type = BLOCK_HEADER /\ last'.op = "propose")
                  => /\ m.data.height \in DOMAIN nodes'[n].pending_blocks
                     /\ nodes'[n].pending_blocks[m.data.height] = m.data
                     /\ n \in VotersOf(nodes'[n].prevotes, m.data.height,
                                       m.data.hash)]_vars

CleanupInvariant ==
    \A n \in Registered :
        \A k \in DOMAIN nodes[n].prevotes \cup DOMAIN nodes[n].precommits
                   \cup DOMAIN nodes[n].pending_blocks :
            k > nodes[n].current_height

\* C30 witness: the precommit n1 just received was for height 1 and made it
\* finalize that height while it held a block, prevotes and precommits for
\* height 2, which it still holds
CleanedUpToHeight ==
    LET s == nodes["n1"] IN
    /\ last.node = "n1" /\ last.msg.msg_type = PRECOMMIT
    /\ last.msg.data.data.height = 1
    /\ s.current_height = 1
    /\ DOMAIN s.pending_blocks = {2}
    /\ DOMAIN s.prevotes = {2}
    /\ DOMAIN s.precommits = {2}

\* the step handed node n a block request it had not seen, and s is the
\* node as _try_sync left it when _handle_block_request started
RequestStepFrom(n, s) ==
    /\ last'.node = n
    /\ last'.msg.msg_type = REQUEST_BLOCK
    /\ last'.msg.msg_id \notin nodes[n].seen_messages
    /\ s \in SyncResults(n, last'.msg)
    /\ nodes'[n] = [HandleBlockRequest(s, last'.msg) EXCEPT !.out = << >>]
    /\ last'.out = HandleBlockRequest(s, last'.msg).out

\* C31: RequestBlock - a request for height k from requester r makes the
\* node send r exactly one BLOCK_HEADER message carrying its finalized
\* block of height k when 1 <= k <= current_height, and nothing otherwise;
\* no error is raised and ledger, state and vote books stay as they were
RequestBlockReply ==
    [][\A n \in Registered : \A s \in SyncResults(n, last'.msg) :
          RequestStepFrom(n, s)
             => LET k == last'.msg.data.height
                    sent == SubSeq(last'.out, Len(s.out) + 1, Len(last'.out))
                IN  /\ nodes'[n].error = ""
                    /\ nodes'[n].ledger = s.ledger
                    /\ nodes'[n].state = s.state
                    /\ nodes'[n].prevotes = s.prevotes
                    /\ nodes'[n].precommits = s.precommits
                    /\ IF 1 <= k /\ k <= s.current_height
                       THEN /\ Len(sent) = 1
                            /\ sent[1].to = last'.msg.data.requester
                            /\ sent[1].msg.msg_type = BLOCK_HEADER
                            /\ sent[1].msg.data = s.ledger[k]
                            /\ sent[1].msg.data.height = k
                       ELSE sent = << >>]_vars

\* C32: proposer contract - a call of propose_block broadcasts a block only
\* on a validator; the block is for current_height + 1, its parent is the
\* hash of the proposer's last ledger block (or "genesis"), its state_hash
\* is the commitment of the proposer's store after its transactions, and
\* the proposer's pending queue is empty afterwards
ProposerContract ==
    [][\A n \in Registered : (last'.node = n /\ last'.op = "propose") =>
          \A i \in 1..Len(last'.out) :
             LET m == last'.out[i].msg IN
             m.msg_type = BLOCK_HEADER
                => /\ nodes[n].is_validator
                   /\ m.data.height = nodes[n].current_height + 1
                   /\ m.data.parent_hash = TipHash(nodes[n])
                   /\ m.data.transactions # << >>
                   /\ m.data.state_hash =
                         Commitment(ApplyLive(nodes[n].state, m.data.transactions).data)
                   /\ nodes'[n].pending_transactions = << >>]_vars

\* the position in the log of the send event of the call that handed the
\* message msg_id to the transport (0 when there is none)
SendPosition(msg_id) ==
    IF \E i \in 1..Len(sim.events) :
          sim.events[i].event = "send" /\ sim.events[i].msg_id = msg_id
    THEN CHOOSE i \in 1..Len(sim.events) :
            /\ sim.events[i].event = "send" /\ sim.events[i].msg_id = msg_id
            /\ \A j \in 1..(i - 1) :
                  ~(sim.events[j].event = "send" /\ sim.events[j].msg_id = msg_id)
    ELSE 0

\* C33: delivery order - receive events appear in the log in nondecreasing
\* delivery time, and of two deliveries at the same time the one that was
\* scheduled first comes first: the call that sent it was not made later,
\* and within one broadcast the recipients keep their registration order
DeliveryOrder ==
    \A p \in 1..Len(sim.events) : \A q \in (p + 1)..Len(sim.events) :
        (sim.events[p].event = "receive" /\ sim.events[q].event = "receive")
            => /\ sim.events[p].time <= sim.events[q].time
               /\ sim.events[p].time = sim.events[q].time
                    => /\ SendPosition(sim.events[p].msg_id)
                            <= SendPosition(sim.events[q].msg_id)
                       /\ sim.events[p].msg_id = sim.events[q].msg_id
                            => NodeRank[sim.events[p].node]
                                  <= NodeRank[sim.events[q].node]

\* the longest time after its scheduling at which a hop can be due
LongestDelay == config.max_delay + 10

\* C34: virtual clock - the clock never goes back and moves only in step;
\* a step that returns adds its duration to the clock, leaves no heap
\* entry due at or before the new time, and by then every hop the log
\* shows as scheduled (delay or duplicate event) long enough ago has been
\* received; and no heap entry is due before the time it was scheduled at
VirtualClock ==
    [][/\ sim'.current_time >= sim.current_time
       /\ sim'.current_time # sim.current_time => used' = used
       /\ \A i \in 1..Len(sim'.queue) :
             (\A j \in 1..Len(sim.queue) : sim.queue[j] # sim'.queue[i])
                => sim'.queue[i].time >= sim.current_time
       /\ (used' = used /\ sim' # sim /\ ~sim'.raised)
             => /\ (sim'.current_time - sim.current_time) \in StepDurations
                /\ \A i \in 1..Len(sim'.queue) :
                      sim'.queue[i].time > sim'.current_time
                /\ \A i \in 1..Len(sim'.events) :
                      LET ev == sim'.events[i] IN
                      (/\ ev.event \in {"delay", "duplicate"}
                       /\ ev.time + LongestDelay <= sim'.current_time)
                         => \E j \in 1..Len(sim'.events) :
                               /\ sim'.events[j].event = "receive"
                               /\ sim'.events[j].node = ev.node
                               /\ sim'.events[j].msg_id = ev.msg_id]_vars

\* C35: rejected send - a send or broadcast call that the rate limiter
\* rejects logs one rate_limited event for its message and nothing else:
\* no heap entry is scheduled and the sender's window counter, the clock
\* and the rest of the log stay as they were
RejectedSendLeavesNoTrace ==
    [][(/\ used'.inject # used.inject
        /\ \E i \in (Len(sim.events) + 1)..Len(sim'.events) :
              sim'.events[i].event = "rate_limited")
          => /\ Len(sim'.events) = Len(sim.events) + 1
             /\ SubSeq(sim'.events, 1, Len(sim.events)) = sim.events
             /\ sim'.events[Len(sim'.events)].msg_id[2] = used.inject
             /\ sim'.events[Len(sim'.events)].time = sim.current_time
             /\ sim'.queue = sim.queue
             /\ sim'.node_send_counts = sim.node_send_counts
             /\ sim'.current_time = sim.current_time]_vars

\* a call was rejected after the sender had used up its window
SendRejected ==
    \E i \in 1..Len(sim.events) :
        /\ sim.events[i].event = "rate_limited"
        /\ sim.node_send_counts[sim.events[i].node].count >= config.rate_limit
        /\ \A j \in 1..Len(sim.events) :
              sim.events[j].msg_id = sim.events[i].msg_id => j = i

\* what a client of chain chain_id signs
ClientTx(chain_id) ==
    SignedTx("alice", <<"alice", "balance">>, "100", chain_id, "k_alice")

\* C36: store and chain id - on a node of chain C, apply_transaction
\* applies a transaction signed for C, and fails with the store unchanged
\* on a transaction that does not verify for C
StoreVerifiesUnderNodeChain ==
    \A n \in DOMAIN nodes : \A chain_id \in {DefaultChain, "testnet"} :
        LET tx == ClientTx(chain_id)
            r == StateApply(nodes[n].state, tx)
        IN  IF TxVerify(tx, nodes[n].chain_id)
            THEN r.ok /\ <<tx.key, tx.value>> \in r.data
            ELSE ~r.ok /\ r.data = nodes[n].state

\* the validators with a valid precommit for (height, block_hash) in a
\* list of votes
ValidPrecommitters(fm, height, block_hash, votes) ==
    {votes[i].voter_id : i \in
        {j \in 1..Len(votes) :
            /\ votes[j].phase = "precommit"
            /\ votes[j].height = height
            /\ votes[j].block_hash = block_hash
            /\ votes[j].voter_id \in fm.validators
            /\ VoteVerify(votes[j], DefaultChain)}}

\* C37: finality threshold - try_finalize(h, X, votes) returns true, and
\* records X at h, only if votes holds valid precommits for (h, X) of
\* more than half of the validators, each validator counted once
FinalityThreshold ==
    (finality.call.op = "try_finalize" /\ finality.call.ok)
       => /\ is_finalized(finality.fm, finality.call.height, finality.call.block_hash)
          /\ 2 * Cardinality(ValidPrecommitters(finality.fm, finality.call.height,
                                                finality.call.block_hash,
                                                finality.call.votes))
                > Cardinality(finality.fm.validators)

\* the message a step handles: the one delivered, or the header that
\* propose_block hands to its own receive_message
StepMessage ==
    IF last'.op # "propose" THEN last'.msg
    ELSE IF last'.out # << >> THEN last'.out[1].msg ELSE NoMessage

\* the blocks of height h the node holds in state s or is being handed
HeldOrArriving(s, message, h) ==
    (IF h \in DOMAIN s.pending_blocks THEN {s.pending_blocks[h]} ELSE {})
       \cup (IF message.msg_type = BLOCK_HEADER /\ message.data.height = h
             THEN {message.data} ELSE {})

\* C38: prevote precondition - a node broadcasts a prevote for (h, X) only
\* if it is a validator and, when it votes (before or after the sync of
\* that call), h is its current height plus one and the block of height h
\* and hash X that it holds passes validation against its ledger and state
PrevoteOnlyValidated ==
    [][\A n \in Registered : last'.node = n =>
          \A i \in 1..Len(last'.out) :
             LET m == last'.out[i].msg IN
             m.msg_type = PREVOTE
                => /\ nodes[n].is_validator
                   /\ \E s \in {nodes[n]} \cup SyncResults(n, StepMessage) :
                         /\ m.data.data.height = s.current_height + 1
                         /\ \E b \in HeldOrArriving(s, StepMessage, m.data.data.height) :
                               /\ b.hash = m.data.data.block_hash
                               /\ ValidateBlock(s, b)]_vars

\* C38 witness: handed a header for its next height, the node prevoted
\* for it and holds it
PrevotedForHeader ==
    /\ last.op = "header"
    /\ \E i \in 1..Len(last.out) :
          /\ last.out[i].msg.msg_type = PREVOTE
          /\ last.out[i].msg.data.data.height = last.msg.data.height
          /\ last.out[i].msg.data.data.block_hash = last.msg.data.hash
          /\ last.msg.data.height \in DOMAIN nodes[last.node].pending_blocks

\* C39: no equivocation - a validator prevotes for at most one block hash
\* per height and precommits for at most one block hash per height
NoEquivocation ==
    \A n \in Registered :
        /\ \A v \in nodes[n].sent_prevotes : \A w \in nodes[n].sent_prevotes :
              v[1] = w[1] => v[2] = w[2]
        /\ \A v \in nodes[n].sent_precommits : \A w \in nodes[n].sent_precommits :
              v[1] = w[1] => v[2] = w[2]

\* the same for the precommits alone
NoPrecommitEquivocation ==
    \A n \in Registered :
        \A v \in nodes[n].sent_precommits : \A w \in nodes[n].sent_precommits :
            v[1] = w[1] => v[2] = w[2]

\* the transport logged event_type for the vote of n for (height, hash)
VoteEvent(event_type, n, phase, vote_key) ==
    \E i \in 1..Len(sim.events) :
        /\ sim.events[i].event = event_type
        /\ sim.events[i].node = n
        /\ sim.events[i].msg_id = <<n, phase, vote_key[1], vote_key[2]>>

====
